---- MODULE Spec2Model ----
(***************************************************************************)
(* A model of the cascading compiler of the Ethos-N support library:       *)
(* CascadingCompiler::Compile and the agent / dependency construction it   *)
(* performs (CascadingCompiler.cpp), the stripe-id stride helpers          *)
(* (CascadingCompilerUtils.hpp) and the dependency records of the command  *)
(* stream (CommandStream.hpp).                                             *)
(*                                                                         *)
(* Agent ids are 0-based as in the code; the agent with id i is element    *)
(* i + 1 of the sequence `agents`.  Ops are identified by their position   *)
(* in the op list (the Op* pointers of the code).                          *)
(***************************************************************************)
EXTENDS Integers, Sequences, FiniteSets, TLC

VARIABLES
    ops,                \* the merged op graph's ops, in execution order, as far as Compile has iterated
    dramBufs,           \* the DRAM buffers of the merged op graph
    agents,             \* m_CommandStreamAgents
    opToAgent,          \* m_OpToAgentIdMapping
    pleKernelToLoader,  \* m_PleKernelToPleLoaderAgentIdMapping
    intermBufToBufId,   \* m_IntermdiateDramBufToBufIdMapping
    bufMgr,             \* what m_BufferManager has been handed
    result,             \* where Compile is / how it ended
    sAgent,             \* the agent data the stripe-id stride helpers work on
    exec,               \* an execution of the emitted agents: the tile of one producer and its readers
    part,               \* a part generating its plans: capabilities, candidates handed to AddNewPlan, plan list
    sramBuf,            \* an SRAM buffer of a plan and the arguments its tile is sized with
    gen,                \* a StripeGenerator, the block configs it has gone through and the StripeInfos it filled
    cfgRun,             \* a call of GetDefaultStripeConfig: its arguments, the config file and the result so far
    combiner,           \* a Combiner: its plan cache and the GetPlans calls its parts have received
    perf                \* two NetworkPerformanceData and the results of comparing them

planVars == <<part, sramBuf, gen, cfgRun, combiner, perf>>

vars == <<ops, dramBufs, agents, opToAgent, pleKernelToLoader, intermBufToBufId, bufMgr, result, sAgent, exec,
          planVars>>

compileVars == <<ops, dramBufs, agents, opToAgent, pleKernelToLoader, intermBufToBufId, bufMgr, result>>

(***************************************************************************)
(* Bounds of the model.                                                    *)
(***************************************************************************)
\* Longest op list Compile is run on.
MaxOps == 7
\* Most ConcatOps in an op list.
MaxConcatOps == 1
\* Largest stripe count per dimension the stride helpers are applied to.
MaxStripes == 3
\* Most MceOps reading the SRAM buffer of one IFM DmaOp in an executed stream.
MaxReaders == 2
\* Stripes the producer of an executed stream writes into its tile.
MaxExecStripes == 4
\* Most slots of the producer's tile.
MaxSlots == 3
\* Most sections in a chain of sections Compile is run on.
MaxStages == 3
\* Most candidate plans a part hands to AddNewPlan.
MaxCandidates == 2
\* Most slots a tile is sized for.
MaxTileSlots == 3

\* Nothing is executing.
ExecIdle == [phase |-> "idle"]

\* No part is generating plans.
NoPart == [kind |-> "none"]
NoBuffer == [sized |-> "none"]
NoGenerator == [cascadeType |-> "none"]
NoConfigRun == [outcome |-> "none"]
NoCombiner == [kind |-> "none"]
NoComparison == [result |-> "none"]
PlanIdle ==
    part = NoPart /\ sramBuf = NoBuffer /\ gen = NoGenerator /\ cfgRun = NoConfigRun /\ combiner = NoCombiner
    /\ perf = NoComparison

(***************************************************************************)
(* Integer helpers.                                                        *)
(***************************************************************************)
DivRoundUp(a, b) == (a + b - 1) \div b

\* static_cast<uint8_t>: silently keeps the low 8 bits.
CastU8(x) == x % 256

\* static_cast<uint16_t> / NumericCast<uint16_t> (the assert is compiled out in release builds).
CastU16(x) == x % 65536

\* A field of a default-initialised AgentDependencyInfo that no statement has written.
Indeterminate == -1

\* TensorShape is { N, H, W, C }.
GetHeight(shape) == shape[2]
GetWidth(shape) == shape[3]
GetChannels(shape) == shape[4]

GetNumStripesH(tensor, stripe) == DivRoundUp(GetHeight(tensor), GetHeight(stripe))
GetNumStripesW(tensor, stripe) == DivRoundUp(GetWidth(tensor), GetWidth(stripe))
GetNumStripesC(tensor, stripe) == DivRoundUp(GetChannels(tensor), GetChannels(stripe))
GetNumStripesTotal(tensor, stripe) ==
    GetNumStripesH(tensor, stripe) * GetNumStripesW(tensor, stripe) * GetNumStripesC(tensor, stripe)

(***************************************************************************)
(* Stripe-id strides (CascadingCompilerUtils.hpp).                         *)
(***************************************************************************)
\* A stride helper that leaves the channel count out of the height stride.
StreamersStridesWithoutChannels(numStripes) ==
    [height   |-> CastU16(numStripes.width),
     width    |-> numStripes.channels,
     channels |-> 1]

\* StreamersUtils::SetStripeIdStrides, traversal order Xyz.
StreamersSetStripeIdStrides(numStripes) ==
    [height   |-> CastU16(numStripes.width * numStripes.channels),
     width    |-> numStripes.channels,
     channels |-> 1]

\* MceSUtils::SetStripeIdStrides, traversal order Xyz.
MceSSetStripeIdStrides(numStripes) ==
    [ofmHeight   |-> CastU16(numStripes.ifmChannels * numStripes.ofmWidth),
     ofmWidth    |-> numStripes.ifmChannels,
     ofmChannels |-> CastU16(numStripes.ifmChannels * numStripes.ofmWidth * numStripes.ofmHeight),
     ifmChannels |-> 1]

\* PleSUtils::SetStripeIdStrides, traversal order Xyz.
PleSSetStripeIdStrides(numStripes) ==
    [height   |-> CastU16(numStripes.width),
     width    |-> 1,
     channels |-> CastU16(numStripes.width * numStripes.height)]

(***************************************************************************)
(* Dependencies and agents (CommandStream.hpp).                            *)
(***************************************************************************)
\* A Dependency of a fresh AgentDependencyInfo: only relativeAgentId is written (to 0).
FreshDependency ==
    [relativeAgentId |-> 0,
     outerRatio      |-> [other |-> Indeterminate, self |-> Indeterminate],
     innerRatio      |-> [other |-> Indeterminate, self |-> Indeterminate],
     boundary        |-> Indeterminate]

FreshDependencyInfo(numStripesTotal) ==
    [numStripesTotal      |-> numStripesTotal,
     scheduleDependencies |-> <<FreshDependency>>,
     readDependencies     |-> <<FreshDependency, FreshDependency>>,
     writeDependencies    |-> <<FreshDependency>>]

AgentAt(ags, id) == ags[id + 1]

\* operator[] of m_OpToAgentIdMapping: a missing key is inserted with value 0.
MapIndex(map, key) == IF key \in DOMAIN map THEN map[key] ELSE 0
MapTouch(map, key) == IF key \in DOMAIN map THEN map ELSE [k \in DOMAIN map \cup {key} |-> IF k = key THEN 0 ELSE map[k]]
MapPut(map, key, val) == [k \in DOMAIN map \cup {key} |-> IF k = key THEN val ELSE map[k]]

(***************************************************************************)
(* Agent data as the Add...ToCommandStream functions build it              *)
(* (CascadingCompiler.cpp).                                                *)
(***************************************************************************)
ZeroTensorSize == [height |-> 0, width |-> 0, channels |-> 0]

\* What reading an agent's bytes beyond its own (smaller) union member can yield:
\* representatives of "not above 1" and "above 1".
UninitChannels == {0, 2}

\* How ProcessMceOp can end: an integer division by zero traps (SIGFPE) or carries on with
\* quotient 0; a failed assert aborts unless the build compiles asserts out (NDEBUG).
MceOpOutcomes(dividesByZero, assertFails) ==
    {"completes"} \cup (IF dividesByZero THEN {"trap"} ELSE {}) \cup (IF assertFails THEN {"abort"} ELSE {})

\* IfmS ifmStreamerData = {} with the four fields AddIfmStreamerToCommandStream sets.
IfmStreamerData ==
    [fmData |-> [dfltStripeSize  |-> [height |-> 1, width |-> 1, channels |-> 1],
                 numStripes      |-> [height |-> 0, width |-> 0, channels |-> 1],
                 stripeIdStrides |-> ZeroTensorSize]]

\* OfmS ofmStreamerData = {}
OfmStreamerData ==
    [fmData |-> [dfltStripeSize  |-> ZeroTensorSize,
                 numStripes      |-> ZeroTensorSize,
                 stripeIdStrides |-> ZeroTensorSize]]

\* WgtS weightStreamerData = {}; `beyond` is the content of the union's bytes past the
\* 20-byte WgtS member, where data.ifm.fmData.numStripes.channels lies.
WgtStreamerData(beyond) ==
    [numStripes      |-> [ofmChannels |-> 0, ifmChannels |-> 0],
     stripeIdStrides |-> [ofmChannels |-> 0, ifmChannels |-> 0],
     beyond          |-> beyond]

\* PleS pleSchedulerData = {}
PleSchedulerData ==
    [dfltStripeSize  |-> ZeroTensorSize,
     numStripes      |-> ZeroTensorSize,
     stripeIdStrides |-> ZeroTensorSize]

PleLoaderData(pleKernelId) == [pleKernelId |-> pleKernelId]

\* The edge stripe size Set...StripeInfo computes for one dimension.
EdgeStripeSize(tensorDim, stripeDim) ==
    IF tensorDim % stripeDim # 0 THEN tensorDim % stripeDim ELSE stripeDim

\* MceSUtils::SetMcesOfmHeight/OfmWidth/OfmChannels/IfmChannelsStripeInfo.
MceSNumStripes(ofmShape, ofmStripeShape, ifmShape, ifmStripeShape) ==
    [ofmHeight   |-> CastU16(GetNumStripesH(ofmShape, ofmStripeShape)),
     ofmWidth    |-> CastU16(GetNumStripesW(ofmShape, ofmStripeShape)),
     ofmChannels |-> CastU16(GetNumStripesC(ofmShape, ofmStripeShape)),
     ifmChannels |-> CastU16(GetNumStripesC(ifmShape, ifmStripeShape))]

MceSDfltStripeSize(ofmStripeShape, ifmStripeShape) ==
    [ofmHeight   |-> CastU16(GetHeight(ofmStripeShape)),
     ofmWidth    |-> CastU16(GetWidth(ofmStripeShape)),
     ofmChannels |-> CastU16(GetChannels(ofmStripeShape)),
     ifmChannels |-> CastU16(GetChannels(ifmStripeShape))]

MceSEdgeStripeSize(ofmShape, ofmStripeShape, ifmShape, ifmStripeShape) ==
    [ofmHeight   |-> EdgeStripeSize(CastU16(GetHeight(ofmShape)), CastU16(GetHeight(ofmStripeShape))),
     ofmWidth    |-> EdgeStripeSize(CastU16(GetWidth(ofmShape)), CastU16(GetWidth(ofmStripeShape))),
     ofmChannels |-> EdgeStripeSize(CastU16(GetChannels(ofmShape)), CastU16(GetChannels(ofmStripeShape))),
     ifmChannels |-> EdgeStripeSize(CastU16(GetChannels(ifmShape)), CastU16(GetChannels(ifmStripeShape)))]

\* The MceS data AddMceSchedulerToCommandStream fills in for an MceOp `op`.
MceSchedulerData(op, pleKernelId) ==
    LET numStripes == MceSNumStripes(op.ofmShape, op.outputStripeShape, op.ifmShape, op.ifmStripeShape)
    IN  [numStripes      |-> numStripes,
         dfltStripeSize  |-> MceSDfltStripeSize(op.outputStripeShape, op.ifmStripeShape),
         edgeStripeSize  |-> MceSEdgeStripeSize(op.ofmShape, op.outputStripeShape, op.ifmShape, op.ifmStripeShape),
         stripeIdStrides |-> MceSSetStripeIdStrides(numStripes),
         filterShape     |-> [height |-> CastU8(op.wgtShape[2]), width |-> CastU8(op.wgtShape[3])],
         pleKernelId     |-> pleKernelId]

\* dependencyInfo.numStripesTotal of an MceScheduler agent.
MceSNumStripesTotal(op) == CastU16(GetNumStripesTotal(op.ofmShape, op.ofmBufStripeShape))

Agent(type, data, numStripesTotal) ==
    [type |-> type, data |-> data, info |-> FreshDependencyInfo(numStripesTotal)]

\* An agent id that does not move with the size of the list.
FirstAgentId(ags) == 0

\* m_CommandStreamAgents.push_back(agent); the new agent's id is the former size.
NextAgentId(ags) == Len(ags)

(***************************************************************************)
(* The producer agent's data read through the union member `ifm`           *)
(* (producerAgent.data.ifm.fmData), whatever the agent's actual type.      *)
(***************************************************************************)
IfmView(agent) ==
    CASE agent.type \in {"IFM_STREAMER", "OFM_STREAMER"} ->
            [dfltStripeSize |-> agent.data.fmData.dfltStripeSize,
             numStripes     |-> agent.data.fmData.numStripes]
      [] agent.type = "WGT_STREAMER" ->
            [dfltStripeSize |-> ZeroTensorSize,
             numStripes     |-> [height |-> agent.data.beyond, width |-> agent.data.beyond,
                                 channels |-> agent.data.beyond]]
      [] OTHER ->
            \* a zero-initialised PleS (or PleL) overlaid by FmSData reads as zeros
            [dfltStripeSize |-> ZeroTensorSize, numStripes |-> ZeroTensorSize]

\* Integer division as the machine performs it when it does not trap.
Quot(a, b) == IF b = 0 THEN 0 ELSE a \div b

\* Whether filling this dependency divides by zero.
FillDividesByZero(consumerAgentType, producerAgentType, producerAgent) ==
    /\ consumerAgentType = "MCE_SCHEDULER"
    /\ producerAgentType = "IFM_STREAMER"
    /\ \/ IfmView(producerAgent).dfltStripeSize.width = 0
       \/ IfmView(producerAgent).dfltStripeSize.height = 0

\* The boundary test leaving out the width clause.
IfmMceBoundaryHeightOnly(ifm, mce) ==
    IF ifm.numStripes.height > 1 /\ mce.filterShape.height > 1 THEN 1 ELSE 0

\* The boundary test shared by both Fill functions for IfmStreamer / MceScheduler.
IfmMceBoundary(ifm, mce) ==
    IF \/ (ifm.numStripes.height > 1 /\ mce.filterShape.height > 1)
       \/ (ifm.numStripes.width > 1 /\ mce.filterShape.width > 1)
    THEN 1
    ELSE 0

\* widthRatio * heightRatio of both Fill functions for IfmStreamer / MceScheduler.
IfmMceWidthRatio(ifm, mce) == CastU8(Quot(mce.numStripes.ofmWidth, ifm.dfltStripeSize.width))
IfmMceHeightRatio(ifm, mce) == CastU8(Quot(mce.numStripes.ofmHeight, ifm.dfltStripeSize.height))

\* CascadingCompiler::FillConsumerAgentDependency
FillConsumerAgentDependency(dep, consumerAgentType, consumerAgent, producerAgentType, producerAgent) ==
    LET mce == consumerAgent.data
        ifm == IfmView(producerAgent)
    IN  CASE consumerAgentType = "MCE_SCHEDULER" /\ producerAgentType = "IFM_STREAMER" ->
                [dep EXCEPT
                    !.outerRatio = [other |-> CastU8(ifm.numStripes.width * ifm.numStripes.height
                                                      * ifm.numStripes.channels),
                                    self  |-> CastU8(mce.numStripes.ofmHeight * mce.numStripes.ofmWidth
                                                      * mce.numStripes.ifmChannels)],
                    !.innerRatio = [other |-> CastU8(IfmMceWidthRatio(ifm, mce) * IfmMceHeightRatio(ifm, mce)),
                                    self  |-> 1],
                    !.boundary   = IfmMceBoundary(ifm, mce)]
          [] consumerAgentType = "MCE_SCHEDULER" /\ producerAgentType = "WGT_STREAMER" ->
                [dep EXCEPT
                    !.outerRatio = [other |-> 1,
                                    self  |-> IF ifm.numStripes.channels > 1
                                              THEN 1
                                              ELSE CastU8(mce.numStripes.ofmHeight * mce.numStripes.ofmWidth)],
                    !.innerRatio = [other |-> 1,
                                    self  |-> IF ifm.numStripes.channels > 1
                                              THEN 1
                                              ELSE CastU8(mce.numStripes.ofmHeight * mce.numStripes.ofmWidth)],
                    !.boundary   = 0]
          [] OTHER -> dep

\* CascadingCompiler::FillProducerAgentDependency
FillProducerAgentDependency(dep, consumerAgentType, consumerAgent, producerAgentType, producerAgent) ==
    LET mce == consumerAgent.data
        ifm == IfmView(producerAgent)
    IN  CASE consumerAgentType = "MCE_SCHEDULER" /\ producerAgentType = "IFM_STREAMER" ->
                [dep EXCEPT
                    !.outerRatio = [other |-> CastU8(mce.numStripes.ofmHeight * mce.numStripes.ofmWidth
                                                      * mce.numStripes.ifmChannels),
                                    self  |-> CastU8(ifm.numStripes.width * ifm.numStripes.height
                                                      * ifm.numStripes.channels)],
                    !.innerRatio = [other |-> 1,
                                    self  |-> CastU8(IfmMceWidthRatio(ifm, mce) * IfmMceHeightRatio(ifm, mce))],
                    !.boundary   = IfmMceBoundary(ifm, mce)]
          [] consumerAgentType = "MCE_SCHEDULER" /\ producerAgentType = "WGT_STREAMER" ->
                [dep EXCEPT
                    !.outerRatio = [other |-> IF ifm.numStripes.channels > 1
                                              THEN 1
                                              ELSE CastU8(mce.numStripes.ofmHeight * mce.numStripes.ofmWidth),
                                    self  |-> 1],
                    !.innerRatio = [other |-> IF ifm.numStripes.channels > 1
                                              THEN 1
                                              ELSE CastU8(mce.numStripes.ofmHeight * mce.numStripes.ofmWidth),
                                    self  |-> 1],
                    !.boundary   = 0]
          [] consumerAgentType = "MCE_SCHEDULER" /\ producerAgentType = "PLE_LOADER" ->
                [dep EXCEPT
                    !.outerRatio = [other |-> CastU8(mce.numStripes.ofmHeight * mce.numStripes.ofmWidth),
                                    self  |-> 1],
                    !.innerRatio = [other |-> CastU8(mce.numStripes.ofmHeight * mce.numStripes.ofmWidth),
                                    self  |-> 1],
                    !.boundary   = 0]
          [] OTHER -> dep

\* AddReadAfterWriteDependency writing every producer into slot 0.
ReadDependencySlotAlwaysFirst(producerAgentType) == 1

\* The slot of readDependencies AddReadAfterWriteDependency writes: .at(0) or .at(1).
ReadDependencySlot(producerAgentType) == IF producerAgentType # "WGT_STREAMER" THEN 1 ELSE 2

\* AddReadAfterWriteDependency taking the position of the consumer relative to the producer.
AddReadAfterWriteDependencyRelativeToProducer(ags, consumerAgentType, consumerAgentId, producerAgentType, producerAgentId) ==
    LET relativeAgentId == producerAgentId - consumerAgentId
        slot == ReadDependencySlot(producerAgentType)
        dep  == [AgentAt(ags, consumerAgentId).info.readDependencies[slot]
                     EXCEPT !.relativeAgentId = CastU8(relativeAgentId)]
    IN  [ags EXCEPT ![consumerAgentId + 1].info.readDependencies[slot] =
            FillConsumerAgentDependency(dep, consumerAgentType, AgentAt(ags, consumerAgentId),
                                        producerAgentType, AgentAt(ags, producerAgentId))]

\* CascadingCompiler::AddReadAfterWriteDependency
AddReadAfterWriteDependency(ags, consumerAgentType, consumerAgentId, producerAgentType, producerAgentId) ==
    LET relativeAgentId == consumerAgentId - producerAgentId
        slot == ReadDependencySlot(producerAgentType)
        dep  == [AgentAt(ags, consumerAgentId).info.readDependencies[slot]
                     EXCEPT !.relativeAgentId = CastU8(relativeAgentId)]
    IN  [ags EXCEPT ![consumerAgentId + 1].info.readDependencies[slot] =
            FillConsumerAgentDependency(dep, consumerAgentType, AgentAt(ags, consumerAgentId),
                                        producerAgentType, AgentAt(ags, producerAgentId))]

\* AddWriteAfterReadDependency that keeps an earlier registration, as AddScheduleTimeDependency does.
AddWriteAfterReadDependencyKeepingFirst(ags, consumerAgentType, consumerAgentId, producerAgentType, producerAgentId) ==
    LET relativeAgentId == consumerAgentId - producerAgentId
        old == AgentAt(ags, producerAgentId).info.writeDependencies[1]
        dep == [old EXCEPT !.relativeAgentId = CastU8(relativeAgentId)]
    IN  IF old.relativeAgentId = 0
        THEN [ags EXCEPT ![producerAgentId + 1].info.writeDependencies[1] =
                 FillProducerAgentDependency(dep, consumerAgentType, AgentAt(ags, consumerAgentId),
                                             producerAgentType, AgentAt(ags, producerAgentId))]
        ELSE ags

\* CascadingCompiler::AddWriteAfterReadDependency
AddWriteAfterReadDependency(ags, consumerAgentType, consumerAgentId, producerAgentType, producerAgentId) ==
    LET relativeAgentId == consumerAgentId - producerAgentId
        dep == [AgentAt(ags, producerAgentId).info.writeDependencies[1]
                    EXCEPT !.relativeAgentId = CastU8(relativeAgentId)]
    IN  [ags EXCEPT ![producerAgentId + 1].info.writeDependencies[1] =
            FillProducerAgentDependency(dep, consumerAgentType, AgentAt(ags, consumerAgentId),
                                        producerAgentType, AgentAt(ags, producerAgentId))]

\* AddScheduleTimeDependency without the test for an earlier registration.
AddScheduleTimeDependencyOverwriting(ags, consumerAgentType, consumerAgentId, producerAgentType, producerAgentId) ==
    LET relativeAgentId == consumerAgentId - producerAgentId
        old == AgentAt(ags, producerAgentId).info.scheduleDependencies[1]
        dep == [old EXCEPT !.relativeAgentId = CastU8(relativeAgentId)]
    IN  [ags EXCEPT ![producerAgentId + 1].info.scheduleDependencies[1] =
            FillProducerAgentDependency(dep, consumerAgentType, AgentAt(ags, consumerAgentId),
                                        producerAgentType, AgentAt(ags, producerAgentId))]

\* CascadingCompiler::AddScheduleTimeDependency
AddScheduleTimeDependency(ags, consumerAgentType, consumerAgentId, producerAgentType, producerAgentId) ==
    LET relativeAgentId == consumerAgentId - producerAgentId
        old == AgentAt(ags, producerAgentId).info.scheduleDependencies[1]
        dep == [old EXCEPT !.relativeAgentId = CastU8(relativeAgentId)]
    IN  IF old.relativeAgentId = 0
        THEN [ags EXCEPT ![producerAgentId + 1].info.scheduleDependencies[1] =
                FillProducerAgentDependency(dep, consumerAgentType, AgentAt(ags, consumerAgentId),
                                            producerAgentType, AgentAt(ags, producerAgentId))]
        ELSE ags


(***************************************************************************)
(* The Add...ToCommandStream functions: push the agent, record its id.     *)
(***************************************************************************)
\* CascadingCompiler::AddIfmStreamerToCommandStream
AddIfmStreamerToCommandStream(ags, map, opId) ==
    [agents    |-> Append(ags, Agent("IFM_STREAMER", IfmStreamerData, 0)),
     opToAgent |-> MapPut(map, opId, NextAgentId(ags))]

\* CascadingCompiler::AddWeightStreamerToCommandStream
AddWeightStreamerToCommandStream(ags, map, opId, beyond) ==
    [agents    |-> Append(ags, Agent("WGT_STREAMER", WgtStreamerData(beyond), 0)),
     opToAgent |-> MapPut(map, opId, NextAgentId(ags))]

\* CascadingCompiler::AddOfmStreamerToCommandStream
AddOfmStreamerToCommandStream(ags, map, opId) ==
    [agents    |-> Append(ags, Agent("OFM_STREAMER", OfmStreamerData, 0)),
     opToAgent |-> MapPut(map, opId, NextAgentId(ags))]

\* CascadingCompiler::AddMceSchedulerToCommandStream
AddMceSchedulerToCommandStream(ags, map, opId, op, pleKernelId) ==
    [agents    |-> Append(ags, Agent("MCE_SCHEDULER", MceSchedulerData(op, pleKernelId), MceSNumStripesTotal(op))),
     opToAgent |-> MapPut(map, opId, NextAgentId(ags))]

\* CascadingCompiler::AddPleLoaderToCommandStream
AddPleLoaderToCommandStream(ags, k2l, pleKernelId) ==
    [agents            |-> Append(ags, Agent("PLE_LOADER", PleLoaderData(pleKernelId), 1)),
     pleKernelToLoader |-> MapPut(k2l, pleKernelId, NextAgentId(ags))]

\* CascadingCompiler::AddPleSchedulerToCommandStream
AddPleSchedulerToCommandStream(ags, map, opId) ==
    [agents    |-> Append(ags, Agent("PLE_SCHEDULER", PleSchedulerData, 0)),
     opToAgent |-> MapPut(map, opId, NextAgentId(ags))]

(***************************************************************************)
(* The Process...Op functions.                                             *)
(***************************************************************************)
\* CascadingCompiler::ProcessDmaOp
ProcessDmaOp(ags, map, opId, op, beyond) ==
    IF op.inLoc = "Dram" /\ op.outLoc = "Sram"
    THEN IF op.inFormat # "WEIGHT"
         THEN AddIfmStreamerToCommandStream(ags, map, opId)
         ELSE AddWeightStreamerToCommandStream(ags, map, opId, beyond)
    ELSE IF op.inLoc = "Sram" /\ op.outLoc = "Dram"
         THEN AddOfmStreamerToCommandStream(ags, map, opId)
         ELSE [agents |-> ags, opToAgent |-> map]

\* ProcessMceOp adding a PLE loader whether or not the kernel has to be loaded.
ProcessMceOpAgentsAlwaysLoading(ags, map, k2l, opId, op) ==
    LET loader == AddPleLoaderToCommandStream(ags, k2l, op.pleKernelId)
        mce    == AddMceSchedulerToCommandStream(loader.agents, map, opId, op, op.pleKernelId)
    IN  [agents              |-> mce.agents,
         opToAgent           |-> mce.opToAgent,
         pleKernelToLoader   |-> loader.pleKernelToLoader,
         pleLoaderAgentId    |-> NextAgentId(ags),
         mceSchedulerAgentId |-> NextAgentId(loader.agents)]

\* The part of CascadingCompiler::ProcessMceOp that adds the agents (up to line 153).
ProcessMceOpAgents(ags, map, k2l, opId, op) ==
    LET loader == IF op.pleLoadKernel
                  THEN AddPleLoaderToCommandStream(ags, k2l, op.pleKernelId)
                  ELSE [agents |-> ags, pleKernelToLoader |-> k2l]
        mce    == AddMceSchedulerToCommandStream(loader.agents, map, opId, op, op.pleKernelId)
    IN  [agents              |-> mce.agents,
         opToAgent           |-> mce.opToAgent,
         pleKernelToLoader   |-> loader.pleKernelToLoader,
         pleLoaderAgentId    |-> IF op.pleLoadKernel THEN NextAgentId(ags) ELSE 0,
         mceSchedulerAgentId |-> NextAgentId(loader.agents)]

\* CascadingCompiler::ProcessMceOp
ProcessMceOp(ags, map, k2l, opId, op) ==
    LET added  == ProcessMceOpAgents(ags, map, k2l, opId, op)
        mceId  == added.mceSchedulerAgentId
        map0   == MapTouch(added.opToAgent, op.in0)
        ifmId  == MapIndex(map0, op.in0)
        map1   == MapTouch(map0, op.in1)
        wgtId  == MapIndex(map1, op.in1)
        a1 == AddReadAfterWriteDependency(added.agents, "MCE_SCHEDULER", mceId, "IFM_STREAMER", ifmId)
        a2 == AddReadAfterWriteDependency(a1, "MCE_SCHEDULER", mceId, "WGT_STREAMER", wgtId)
        a3 == AddWriteAfterReadDependency(a2, "MCE_SCHEDULER", mceId, "IFM_STREAMER", ifmId)
        a4 == AddWriteAfterReadDependency(a3, "MCE_SCHEDULER", mceId, "WGT_STREAMER", wgtId)
        a5 == AddScheduleTimeDependency(a4, "MCE_SCHEDULER", mceId, "IFM_STREAMER", ifmId)
        a6 == AddScheduleTimeDependency(a5, "MCE_SCHEDULER", mceId, "WGT_STREAMER", wgtId)
        a7 == IF op.pleLoadKernel
              THEN AddScheduleTimeDependency(a6, "MCE_SCHEDULER", mceId, "PLE_LOADER", added.pleLoaderAgentId)
              ELSE a6
    IN  [agents |-> a7, opToAgent |-> map1, pleKernelToLoader |-> added.pleKernelToLoader]

\* Whether ProcessMceOp divides by zero while filling the IfmStreamer dependencies.
ProcessMceOpDividesByZero(ags, map, k2l, opId, op) ==
    LET added == ProcessMceOpAgents(ags, map, k2l, opId, op)
    IN  FillDividesByZero("MCE_SCHEDULER", "IFM_STREAMER",
                          AgentAt(added.agents, MapIndex(added.opToAgent, op.in0)))

\* Whether the assert of the IfmStreamer branch of the Fill functions fails.
ProcessMceOpAssertFails(ags, map, k2l, opId, op) ==
    LET added == ProcessMceOpAgents(ags, map, k2l, opId, op)
    IN  AgentAt(added.agents, added.mceSchedulerAgentId).data.numStripes.ifmChannels
            # IfmView(AgentAt(added.agents, MapIndex(added.opToAgent, op.in0))).numStripes.channels

\* CascadingCompiler::ProcessPleOp
ProcessPleOp(ags, map, opId) == AddPleSchedulerToCommandStream(ags, map, opId)

(***************************************************************************)
(* CascadingCompiler::AddLifetimeInfoForIntermediateDramBuffers.           *)
(* The buffers are visited in order; .at() throws std::out_of_range on a   *)
(* missing key, which ends the visit with what was marked so far.          *)
(***************************************************************************)
MaxOf(S) == CHOOSE m \in S : \A x \in S : x <= m

LifetimeLookupsSucceed(buf, bufId, map, bufIds) ==
    /\ buf.producer \in DOMAIN map
    /\ \A c \in buf.consumers : c \in DOMAIN map
    /\ bufId \in DOMAIN bufIds

\* lifetimeEnd starts at 0 and is raised to the largest consumer agent id.
LifetimeOf(buf, bufId, map, bufIds) ==
    [buffer |-> bufIds[bufId],
     start  |-> map[buf.producer],
     end    |-> MaxOf({0} \cup {map[c] : c \in buf.consumers}) + 1]

RECURSIVE LifetimeScan(_, _, _, _, _)
LifetimeScan(bufs, i, map, bufIds, marked) ==
    IF i > Len(bufs)
    THEN [thrown |-> FALSE, lifetimes |-> marked]
    ELSE IF bufs[i].type = "Intermediate"
         THEN IF LifetimeLookupsSucceed(bufs[i], i, map, bufIds)
              THEN LifetimeScan(bufs, i + 1, map, bufIds, marked \cup {LifetimeOf(bufs[i], i, map, bufIds)})
              ELSE [thrown |-> TRUE, lifetimes |-> marked]
         ELSE LifetimeScan(bufs, i + 1, map, bufIds, marked)

AddLifetimeInfoForIntermediateDramBuffers(bufs, map, bufIds) == LifetimeScan(bufs, 1, map, bufIds, {})


(***************************************************************************)
(* The merged op graph.  Compile iterates over GetOps() and, apart from    *)
(* the PleOp consuming an MceOp's output, never looks at an op before its  *)
(* turn, so the op list is supplied one op at a time.  The ops supplied    *)
(* form op graphs as the plans build them: an MceOp reads an SRAM buffer   *)
(* written by an earlier DmaOp or PleOp and a weight buffer written by an  *)
(* earlier weight DmaOp, and is followed by the PleOp that consumes its    *)
(* output.                                                                 *)
(***************************************************************************)
\* Shapes of the buffers around an MceOp: OFM tensor, MceOp output stripe, OFM buffer
\* stripe, IFM tensor, IFM buffer stripe, weights tensor (HWIO).
MceGeometries ==
    { [ofmShape |-> <<1, 17, 32, 32>>, outputStripeShape |-> <<1, 8, 16, 16>>,
       ofmBufStripeShape |-> <<1, 8, 16, 16>>,
       ifmShape |-> <<1, 17, 32, 32>>, ifmStripeShape |-> <<1, 8, 16, 16>>,
       wgtShape |-> <<3, 3, 32, 32>>],
      [ofmShape |-> <<1, 128, 128, 16>>, outputStripeShape |-> <<1, 8, 8, 16>>,
       ofmBufStripeShape |-> <<1, 8, 8, 16>>,
       ifmShape |-> <<1, 128, 128, 16>>, ifmStripeShape |-> <<1, 8, 8, 16>>,
       wgtShape |-> <<1, 1, 16, 16>>] }

PleKernelIds == {"SIGMOID_16X16_1", "LEAKY_RELU_8X8_2"}

\* Op kinds Compile has no branch for.
UnsupportedOpKinds == {"EstimateOnly"}

OpIds(o) == 1..Len(o)

IsIfmDma(op) == op.kind = "Dma" /\ op.inLoc = "Dram" /\ op.outLoc = "Sram" /\ op.inFormat # "WEIGHT"
IsWgtDma(op) == op.kind = "Dma" /\ op.inLoc = "Dram" /\ op.outLoc = "Sram" /\ op.inFormat = "WEIGHT"
IsOfmDma(op) == op.kind = "Dma" /\ op.inLoc = "Sram" /\ op.outLoc = "Dram"

\* SRAM buffers loaded by a DmaOp that no MceOp reads yet.
UnconsumedIfm(o) == {i \in OpIds(o) : IsIfmDma(o[i]) /\ ~\E j \in OpIds(o) : o[j].kind = "Mce" /\ o[j].in0 = i}
UnconsumedWgt(o) == {i \in OpIds(o) : IsWgtDma(o[i]) /\ ~\E j \in OpIds(o) : o[j].kind = "Mce" /\ o[j].in1 = i}

\* PleOps whose SRAM output nothing reads yet.
UnreadPle(o) ==
    {i \in OpIds(o) : /\ o[i].kind = "Ple"
                      /\ ~\E j \in OpIds(o) : \/ (o[j].kind = "Mce" /\ o[j].in0 = i)
                                              \/ (IsOfmDma(o[j]) /\ o[j].src = i)}

\* The last op is an MceOp whose PleOp has not come yet.
PendingPle(o) == Len(o) > 0 /\ o[Len(o)].kind = "Mce"

NothingPending(o) == ~PendingPle(o) /\ UnconsumedIfm(o) = {} /\ UnconsumedWgt(o) = {}

\* The SRAM buffers an MceOp can take as its input 0: the one just loaded, or else one
\* an earlier MceOp reads as well, or the output of a PleOp.
IfmSources(o) ==
    IF UnconsumedIfm(o) # {}
    THEN UnconsumedIfm(o)
    ELSE {i \in OpIds(o) : IsIfmDma(o[i])} \cup UnreadPle(o)

IntermediateBufs(bufs) == {b \in 1..Len(bufs) : bufs[b].type = "Intermediate"}

CompileRunning == result = "running"
MoreOps == CompileRunning /\ Len(ops) < MaxOps

(***************************************************************************)
(* Compile: one action per iteration of the loop over the ops, by kind.    *)
(***************************************************************************)
\* A catch clause that lets the exception through to the caller.
CompileRethrows(exception) == exception

\* How Compile ends when an exception is thrown inside it: NotSupportedException is caught
\* and logged and a null pointer is returned; any other exception leaves Compile.
CompileResultOnThrow(exception) ==
    IF exception = "NotSupportedException" THEN "null" ELSE exception

\* A DmaOp from a DRAM feature map (a network input or an intermediate buffer) to SRAM.
CompileIfmDmaOp ==
    /\ MoreOps
    /\ NothingPending(ops)
    /\ \E src \in {0} \cup IntermediateBufs(dramBufs) :
          LET opId == Len(ops) + 1
              buf  == IF src = 0 THEN Len(dramBufs) + 1 ELSE src
              op   == [kind |-> "Dma", inLoc |-> "Dram", inFormat |-> "NHWCB", outLoc |-> "Sram",
                       dram |-> buf, src |-> 0]
              done == ProcessDmaOp(agents, opToAgent, opId, op, 0)
          IN  /\ ops' = Append(ops, op)
              /\ dramBufs' = IF src = 0
                             THEN Append(dramBufs, [type |-> "Input", producer |-> 0, consumers |-> {opId}])
                             ELSE [dramBufs EXCEPT ![src].consumers = @ \cup {opId}]
              /\ agents' = done.agents
              /\ opToAgent' = done.opToAgent
    /\ UNCHANGED <<pleKernelToLoader, intermBufToBufId, bufMgr, result, sAgent, exec, planVars>>

\* A DmaOp from a DRAM weights buffer to SRAM.
CompileWgtDmaOp ==
    /\ MoreOps
    /\ ~PendingPle(ops)
    /\ UnconsumedWgt(ops) = {}
    /\ IfmSources(ops) # {}
    /\ \E beyond \in UninitChannels :
          LET opId == Len(ops) + 1
              op   == [kind |-> "Dma", inLoc |-> "Dram", inFormat |-> "WEIGHT", outLoc |-> "Sram",
                       dram |-> Len(dramBufs) + 1, src |-> 0]
              done == ProcessDmaOp(agents, opToAgent, opId, op, beyond)
          IN  /\ ops' = Append(ops, op)
              /\ dramBufs' = Append(dramBufs, [type |-> "ConstantDma", producer |-> 0, consumers |-> {opId}])
              /\ agents' = done.agents
              /\ opToAgent' = done.opToAgent
    /\ UNCHANGED <<pleKernelToLoader, intermBufToBufId, bufMgr, result, sAgent, exec, planVars>>

\* A DmaOp from the SRAM output of a PleOp to a DRAM buffer.
CompileOfmDmaOp ==
    /\ MoreOps
    /\ NothingPending(ops)
    /\ \E src \in UnreadPle(ops), type \in {"Output", "Intermediate"} :
          LET opId == Len(ops) + 1
              op   == [kind |-> "Dma", inLoc |-> "Sram", inFormat |-> "NHWCB", outLoc |-> "Dram",
                       dram |-> Len(dramBufs) + 1, src |-> src]
              done == ProcessDmaOp(agents, opToAgent, opId, op, 0)
          IN  /\ ops' = Append(ops, op)
              /\ dramBufs' = Append(dramBufs, [type |-> type, producer |-> opId, consumers |-> {}])
              /\ agents' = done.agents
              /\ opToAgent' = done.opToAgent
    /\ UNCHANGED <<pleKernelToLoader, intermBufToBufId, bufMgr, result, sAgent, exec, planVars>>

\* An MceOp; pleLoadKernel and pleKernelId are those of the PleOp consuming its output.
CompileMceOp ==
    /\ MoreOps
    /\ ~PendingPle(ops)
    /\ \E in0 \in IfmSources(ops), in1 \in UnconsumedWgt(ops), load \in BOOLEAN,
          kernel \in PleKernelIds, g \in MceGeometries :
          LET opId == Len(ops) + 1
              op   == [kind |-> "Mce", in0 |-> in0, in1 |-> in1, pleLoadKernel |-> load,
                       pleKernelId |-> kernel, ofmShape |-> g.ofmShape,
                       outputStripeShape |-> g.outputStripeShape,
                       ofmBufStripeShape |-> g.ofmBufStripeShape, ifmShape |-> g.ifmShape,
                       ifmStripeShape |-> g.ifmStripeShape, wgtShape |-> g.wgtShape]
              divz == ProcessMceOpDividesByZero(agents, opToAgent, pleKernelToLoader, opId, op)
              afail == ProcessMceOpAssertFails(agents, opToAgent, pleKernelToLoader, opId, op)
          IN  /\ ops' = Append(ops, op)
              /\ \E outcome \in MceOpOutcomes(divz, afail) :
                    IF outcome # "completes"
                    THEN LET added == ProcessMceOpAgents(agents, opToAgent, pleKernelToLoader, opId, op)
                         IN  /\ agents' = added.agents
                             /\ opToAgent' = added.opToAgent
                             /\ pleKernelToLoader' = added.pleKernelToLoader
                             /\ result' = "crashed"
                    ELSE LET done == ProcessMceOp(agents, opToAgent, pleKernelToLoader, opId, op)
                         IN  /\ agents' = done.agents
                             /\ opToAgent' = done.opToAgent
                             /\ pleKernelToLoader' = done.pleKernelToLoader
                             /\ result' = result
    /\ UNCHANGED <<dramBufs, intermBufToBufId, bufMgr, sAgent, exec, planVars>>

\* The PleOp that consumes the output of the MceOp before it.
CompilePleOp ==
    /\ MoreOps
    /\ PendingPle(ops)
    /\ LET opId == Len(ops) + 1
           mce  == ops[Len(ops)]
           op   == [kind |-> "Ple", mce |-> Len(ops), loadKernel |-> mce.pleLoadKernel,
                    pleKernelId |-> mce.pleKernelId]
           done == ProcessPleOp(agents, opToAgent, opId)
       IN  /\ ops' = Append(ops, op)
           /\ agents' = done.agents
           /\ opToAgent' = done.opToAgent
    /\ UNCHANGED <<dramBufs, pleKernelToLoader, intermBufToBufId, bufMgr, result, sAgent, exec, planVars>>

\* A ConcatOp between DRAM buffers: ProcessConcatOp does nothing.
CompileConcatOp ==
    /\ MoreOps
    /\ NothingPending(ops)
    /\ Cardinality({i \in OpIds(ops) : ops[i].kind = "Concat"}) < MaxConcatOps
    /\ \E src \in {0} \cup IntermediateBufs(dramBufs), type \in {"Output", "Intermediate"} :
          LET opId == Len(ops) + 1
              in   == IF src = 0 THEN Len(dramBufs) + 1 ELSE src
              bufs == IF src = 0
                      THEN Append(dramBufs, [type |-> "Input", producer |-> 0, consumers |-> {opId}])
                      ELSE [dramBufs EXCEPT ![src].consumers = @ \cup {opId}]
              op   == [kind |-> "Concat", in |-> in, out |-> Len(bufs) + 1]
          IN  /\ ops' = Append(ops, op)
              /\ dramBufs' = Append(bufs, [type |-> type, producer |-> opId, consumers |-> {}])
    /\ UNCHANGED <<agents, opToAgent, pleKernelToLoader, intermBufToBufId, bufMgr, result, sAgent, exec, planVars>>

\* An op of any other kind: NotSupportedException is thrown, caught in Compile and logged,
\* and Compile returns a null pointer.
CompileUnsupportedOp ==
    /\ MoreOps
    /\ \E kind \in UnsupportedOpKinds : ops' = Append(ops, [kind |-> kind])
    /\ result' = CompileResultOnThrow("NotSupportedException")
    /\ UNCHANGED <<dramBufs, agents, opToAgent, pleKernelToLoader, intermBufToBufId, bufMgr, sAgent, exec, planVars>>

\* The op list is complete: every SRAM buffer has its reader and every intermediate DRAM
\* buffer has a consumer.
OpGraphComplete ==
    /\ Len(ops) > 0
    /\ NothingPending(ops)
    /\ UnreadPle(ops) = {}
    /\ \A b \in IntermediateBufs(dramBufs) : dramBufs[b].consumers # {}

\* The rest of Compile after the loop: the lifetimes, the command stream, the compiled network.
CompileFinish ==
    /\ CompileRunning
    /\ OpGraphComplete
    /\ LET life == AddLifetimeInfoForIntermediateDramBuffers(dramBufs, opToAgent, intermBufToBufId)
       IN  IF life.thrown
           THEN /\ bufMgr' = [bufMgr EXCEPT !.lifetimes = life.lifetimes]
                /\ result' = CompileResultOnThrow("std::out_of_range")
           ELSE /\ bufMgr' = [hasCommandStream |-> TRUE, commandStream |-> agents,
                              lifetimes |-> life.lifetimes]
                /\ result' = "ok"
    /\ UNCHANGED <<ops, dramBufs, agents, opToAgent, pleKernelToLoader, intermBufToBufId, sAgent, exec, planVars>>

\* The state after construction: nothing compiled yet.
CompileInit ==
    /\ ops = <<>>
    /\ dramBufs = <<>>
    /\ agents = <<>>
    /\ opToAgent = <<>>
    /\ pleKernelToLoader = <<>>
    /\ intermBufToBufId = <<>>
    /\ bufMgr = [hasCommandStream |-> FALSE, commandStream |-> <<>>, lifetimes |-> {}]
    /\ result = "running"

Init ==
    /\ CompileInit
    /\ sAgent = [kind |-> "none"]
    /\ exec = ExecIdle
    /\ PlanIdle

Next ==
    \/ CompileIfmDmaOp
    \/ CompileWgtDmaOp
    \/ CompileMceOp
    \/ CompilePleOp
    \/ CompileOfmDmaOp
    \/ CompileConcatOp
    \/ CompileUnsupportedOp
    \/ CompileFinish

Spec == Init /\ [][Next]_vars


(***************************************************************************)
(* The stripe-id stride helpers applied to agents of every stripe count.   *)
(***************************************************************************)
StripeCounts == 1..MaxStripes

\* The dimensions an agent kind counts stripes in.
StripeDims(kind) ==
    IF kind = "MceS" THEN {"ofmHeight", "ofmWidth", "ofmChannels", "ifmChannels"}
    ELSE {"height", "width", "channels"}

\* Agent data zero-initialised (IfmS = {}, MceS = {}, PleS = {}) with numStripes filled in.
StrideInit ==
    \E kind \in {"FmS", "MceS", "PleS"} :
       \E n \in [StripeDims(kind) -> StripeCounts] :
          sAgent = [kind |-> kind, numStripes |-> n,
                    stripeIdStrides |-> [d \in StripeDims(kind) |-> 0], stridesSet |-> FALSE]

InitStrides ==
    /\ CompileInit
    /\ StrideInit
    /\ exec = ExecIdle
    /\ PlanIdle

StridesPending(kind) == sAgent.kind = kind /\ ~sAgent.stridesSet

StreamersStrides ==
    /\ StridesPending("FmS")
    /\ sAgent' = [sAgent EXCEPT !.stripeIdStrides = StreamersSetStripeIdStrides(sAgent.numStripes),
                                !.stridesSet = TRUE]
    /\ UNCHANGED <<compileVars, exec, planVars>>

MceSStrides ==
    /\ StridesPending("MceS")
    /\ sAgent' = [sAgent EXCEPT !.stripeIdStrides = MceSSetStripeIdStrides(sAgent.numStripes),
                                !.stridesSet = TRUE]
    /\ UNCHANGED <<compileVars, exec, planVars>>

PleSStrides ==
    /\ StridesPending("PleS")
    /\ sAgent' = [sAgent EXCEPT !.stripeIdStrides = PleSSetStripeIdStrides(sAgent.numStripes),
                                !.stridesSet = TRUE]
    /\ UNCHANGED <<compileVars, exec, planVars>>

NextStrides ==
    \/ StreamersStrides
    \/ MceSStrides
    \/ PleSStrides

SpecStrides == InitStrides /\ [][NextStrides]_vars

\* Stripe coordinates of an agent, the id the strides give them, and the stripe count.
RECURSIVE SumOver(_, _)
SumOver(f, D) == IF D = {} THEN 0 ELSE LET d == CHOOSE x \in D : TRUE IN f[d] + SumOver(f, D \ {d})
RECURSIVE ProductOver(_, _)
ProductOver(f, D) == IF D = {} THEN 1 ELSE LET d == CHOOSE x \in D : TRUE IN f[d] * ProductOver(f, D \ {d})

StripeCoords(a) == {c \in [DOMAIN a.numStripes -> 0..(MaxStripes - 1)] : \A d \in DOMAIN c : c[d] < a.numStripes[d]}
StripeIdOf(a, c) == SumOver([d \in DOMAIN c |-> c[d] * a.stripeIdStrides[d]], DOMAIN c)
StripeCoordOf(a, id) == [d \in DOMAIN a.numStripes |-> (id \div a.stripeIdStrides[d]) % a.numStripes[d]]
StripeIds(a) == 0..(ProductOver(a.numStripes, DOMAIN a.numStripes) - 1)

\* C1: once the strides of a streamer, MCE scheduler or PLE scheduler agent are set, the
\* stripe coordinates map one-to-one onto the stripe ids 0 .. (product of numStripes) - 1,
\* and coordinate d of a stripe id is (id / stride[d]) mod numStripes[d].
C1_StridesBijective ==
    sAgent.kind \in {"FmS", "MceS", "PleS"} /\ sAgent.stridesSet =>
        /\ \A c \in StripeCoords(sAgent) :
              /\ StripeIdOf(sAgent, c) \in StripeIds(sAgent)
              /\ StripeCoordOf(sAgent, StripeIdOf(sAgent, c)) = c
        /\ \A id \in StripeIds(sAgent) : \E c \in StripeCoords(sAgent) : StripeIdOf(sAgent, c) = id

\* A streamer agent with more than one stripe in every dimension has its strides set.
C1_Witness ==
    /\ sAgent.kind = "FmS"
    /\ sAgent.stridesSet
    /\ \A d \in DOMAIN sAgent.numStripes : sAgent.numStripes[d] > 1


(***************************************************************************)
(* Properties of Compile.                                                  *)
(***************************************************************************)
AgentOfOp(i) == AgentAt(agents, opToAgent[i])

\* The MceOps whose ProcessMceOp has run to its end.
ProcessedMceOps ==
    {i \in OpIds(ops) : ops[i].kind = "Mce" /\ ~(result = "crashed" /\ i = Len(ops))}

OpsOfKind(kinds) == {i \in OpIds(ops) : ops[i].kind \in kinds}
LoadingMceOps == {i \in OpIds(ops) : ops[i].kind = "Mce" /\ ops[i].pleLoadKernel}
AgentIdsOfOps(S) == {opToAgent[i] : i \in S \cap DOMAIN opToAgent}

\* C2 as stated: after a successful Compile every op (DMA, MCE, PLE, Concat) has exactly one
\* agent and every agent belongs to exactly one op, so there are as many agents as ops.
C2_OneAgentPerOp ==
    result = "ok" =>
        /\ Len(agents) = Len(ops)
        /\ \A i \in OpIds(ops) : i \in DOMAIN opToAgent /\ opToAgent[i] \in 0..(Len(agents) - 1)
        /\ \A i, j \in OpIds(ops) : i # j => opToAgent[i] # opToAgent[j]

\* C2 amended: after a successful Compile every DMA, MCE and PLE op has exactly one agent of
\* its own, a Concat op has none, and every agent that is not an op's agent is the PLE
\* loader added for an MCE op whose PLE kernel is loaded: number of agents = number of DMA,
\* MCE and PLE ops + number of MCE ops whose PLE kernel is loaded.
C2_AgentsPerOpAmended ==
    result = "ok" =>
        LET agentOps == OpsOfKind({"Dma", "Mce", "Ple"})
        IN  /\ DOMAIN opToAgent = agentOps
            /\ \A i \in agentOps : opToAgent[i] \in 0..(Len(agents) - 1)
            /\ \A i, j \in agentOps : i # j => opToAgent[i] # opToAgent[j]
            /\ Len(agents) = Cardinality(agentOps) + Cardinality(LoadingMceOps)
            /\ \A a \in 0..(Len(agents) - 1) :
                  a \notin AgentIdsOfOps(agentOps) =>
                      /\ AgentAt(agents, a).type = "PLE_LOADER"
                      /\ \E i \in LoadingMceOps : opToAgent[i] = a + 1

\* A successful Compile of an op list with a Concat op and an MCE op that loads its kernel.
C2_Witness ==
    /\ result = "ok"
    /\ LoadingMceOps # {}
    /\ OpsOfKind({"Concat"}) # {}
    /\ OpsOfKind({"Mce"}) \ LoadingMceOps = {}


\* C4: once an MCE op is processed, readDependencies[0] of its MceScheduler agent refers to
\* the agent producing its IFM input and readDependencies[1] to its weight streamer agent,
\* each with relativeAgentId = MCE agent id - producer agent id; the producer in slot 1 is a
\* weight streamer and the producer in slot 0 is not.
C4_ReadDependencySlots ==
    \A i \in ProcessedMceOps :
        LET mceId == opToAgent[i]
            rd    == AgentOfOp(i).info.readDependencies
        IN  /\ rd[1].relativeAgentId = mceId - opToAgent[ops[i].in0]
            /\ rd[2].relativeAgentId = mceId - opToAgent[ops[i].in1]
            /\ AgentAt(agents, mceId - rd[1].relativeAgentId).type \in {"IFM_STREAMER", "PLE_SCHEDULER"}
            /\ AgentAt(agents, mceId - rd[2].relativeAgentId).type = "WGT_STREAMER"
            /\ rd[2].outerRatio.other = 1

\* Two MCE ops are processed, one reading an IFM streamer and one the output of a PLE.
C4_Witness ==
    /\ \E i \in ProcessedMceOps : AgentOfOp(ops[i].in0).type = "IFM_STREAMER"
    /\ \E i \in ProcessedMceOps : AgentOfOp(ops[i].in0).type = "PLE_SCHEDULER"

\* The processed MCE ops that registered a schedule-time dependency on the agent of op src.
ScheduleConsumers(src) == {i \in ProcessedMceOps : ops[i].in0 = src \/ ops[i].in1 = src}
FirstOf(S) == CHOOSE i \in S : \A j \in S : i <= j

\* C5: however many schedule-time dependencies are registered on one producer agent, its
\* scheduleDependencies[0] is the one derived from the first registered consumer: the later
\* registrations change none of relativeAgentId, outerRatio, innerRatio and boundary.
C5_ScheduleFromFirstConsumer ==
    \A src \in OpIds(ops) :
        ScheduleConsumers(src) # {} =>
            LET first    == FirstOf(ScheduleConsumers(src))
                producer == opToAgent[src]
                consumer == opToAgent[first]
                type     == IF ops[first].in1 = src THEN "WGT_STREAMER" ELSE "IFM_STREAMER"
            IN  AgentAt(agents, producer).info.scheduleDependencies[1] =
                    FillProducerAgentDependency(
                        [FreshDependency EXCEPT !.relativeAgentId = consumer - producer],
                        "MCE_SCHEDULER", AgentAt(agents, consumer), type, AgentAt(agents, producer))

\* Two MCE ops with different stripe counts have registered on the same IFM streamer.
C5_Witness ==
    \E src \in OpIds(ops) :
        \E i, j \in ScheduleConsumers(src) :
            /\ i < j
            /\ AgentOfOp(src).type = "IFM_STREAMER"
            /\ AgentOfOp(i).data.numStripes # AgentOfOp(j).data.numStripes


\* Compile has ended without a compiled network: it returned null or an exception left it.
CompileFailed == result \in {"null", "NotSupportedException", "std::out_of_range"}

\* What GetCommandStreamOfAgents returns.
GetCommandStreamOfAgents == agents

\* C6: when Compile fails part-way through the op list nothing built so far is observable:
\* the agent list obtainable from the compiler is empty and the buffer manager has received
\* neither a command stream nor lifetime information.
C6_NothingExposedOnFailure ==
    CompileFailed =>
        /\ GetCommandStreamOfAgents = <<>>
        /\ ~bufMgr.hasCommandStream
        /\ bufMgr.lifetimes = {}

UnsupportedOps == {i \in OpIds(ops) : ops[i].kind \in UnsupportedOpKinds}

IfmFedMceOps == {i \in ProcessedMceOps : AgentOfOp(ops[i].in0).type = "IFM_STREAMER"}

\* C8: in the IfmStreamer -> MceScheduler read dependency, outerRatio.other is the product
\* of the IFM streamer's numStripes over height, width and channels, and outerRatio.self is
\* the product of the MCE scheduler's numStripes over ofmHeight, ofmWidth and ifmChannels.
C8_OuterRatioProducts ==
    \A i \in IfmFedMceOps :
        LET dep == AgentOfOp(i).info.readDependencies[1]
            ifm == AgentOfOp(ops[i].in0).data.fmData.numStripes
            mce == AgentOfOp(i).data.numStripes
        IN  /\ dep.outerRatio.other = ifm.height * ifm.width * ifm.channels
            /\ dep.outerRatio.self = mce.ofmHeight * mce.ofmWidth * mce.ifmChannels

\* C9: in the IfmStreamer -> MceScheduler read dependency, innerRatio.self = 1 and
\* innerRatio.other = w_ratio * h_ratio, each ratio being the MCE output stripe extent in
\* elements divided by the IFM streamer's default stripe extent in elements, i.e. the
\* number of IFM stripes needed per MCE stripe.
C9_InnerRatioOfExtents ==
    \A i \in IfmFedMceOps :
        LET dep == AgentOfOp(i).info.readDependencies[1]
            ifm == AgentOfOp(ops[i].in0).data.fmData.dfltStripeSize
            mce == AgentOfOp(i).data.dfltStripeSize
        IN  /\ dep.innerRatio.self = 1
            /\ dep.innerRatio.other = (mce.ofmWidth \div ifm.width) * (mce.ofmHeight \div ifm.height)


(***************************************************************************)
(* The dependency functions applied to one IfmStreamer agent (id 0) and    *)
(* one MceScheduler agent (id 1) of every stripe split and kernel shape.   *)
(***************************************************************************)
\* Weights tensor shapes (HWIO).
KernelShapes == {<<1, 1, 16, 16>>, <<3, 3, 16, 16>>, <<1, 3, 16, 16>>, <<3, 1, 1, 16>>}

\* An IfmStreamer agent with the given stripe counts and the stripe shape of the MCE input.
SplitIfmStreamer(g, numStripesH, numStripesW) ==
    Agent("IFM_STREAMER",
          [fmData |-> [dfltStripeSize  |-> [height   |-> GetHeight(g.ifmStripeShape),
                                            width    |-> GetWidth(g.ifmStripeShape),
                                            channels |-> GetChannels(g.ifmStripeShape)],
                       numStripes      |-> [height   |-> numStripesH,
                                            width    |-> numStripesW,
                                            channels |-> GetNumStripesC(g.ifmShape, g.ifmStripeShape)],
                       stripeIdStrides |-> ZeroTensorSize]],
          0)

InitFill ==
    /\ ops = <<>>
    /\ dramBufs = <<>>
    /\ opToAgent = <<>>
    /\ pleKernelToLoader = <<>>
    /\ intermBufToBufId = <<>>
    /\ bufMgr = [hasCommandStream |-> FALSE, commandStream |-> <<>>, lifetimes |-> {}]
    /\ result = "running"
    /\ sAgent = [kind |-> "none"]
    /\ exec = ExecIdle
    /\ PlanIdle
    /\ \E g \in MceGeometries, k \in KernelShapes, h \in StripeCounts, w \in StripeCounts, id \in PleKernelIds :
          agents = AddMceSchedulerToCommandStream(<<SplitIfmStreamer(g, h, w)>>, <<>>, 1,
                                                  [g EXCEPT !.wgtShape = k], id).agents

FillReadAfterWrite ==
    /\ AgentAt(agents, 1).info.readDependencies[1].relativeAgentId = 0
    /\ agents' = AddReadAfterWriteDependency(agents, "MCE_SCHEDULER", 1, "IFM_STREAMER", 0)
    /\ UNCHANGED <<ops, dramBufs, opToAgent, pleKernelToLoader, intermBufToBufId, bufMgr, result, sAgent, exec, planVars>>

FillWriteAfterRead ==
    /\ AgentAt(agents, 0).info.writeDependencies[1].relativeAgentId = 0
    /\ agents' = AddWriteAfterReadDependency(agents, "MCE_SCHEDULER", 1, "IFM_STREAMER", 0)
    /\ UNCHANGED <<ops, dramBufs, opToAgent, pleKernelToLoader, intermBufToBufId, bufMgr, result, sAgent, exec, planVars>>

FillScheduleTime ==
    /\ AgentAt(agents, 0).info.scheduleDependencies[1].relativeAgentId = 0
    /\ agents' = AddScheduleTimeDependency(agents, "MCE_SCHEDULER", 1, "IFM_STREAMER", 0)
    /\ UNCHANGED <<ops, dramBufs, opToAgent, pleKernelToLoader, intermBufToBufId, bufMgr, result, sAgent, exec, planVars>>

NextFill ==
    \/ FillReadAfterWrite
    \/ FillWriteAfterRead
    \/ FillScheduleTime

SpecFill == InitFill /\ [][NextFill]_vars

\* The IfmStreamer / MceScheduler dependencies registered so far.
IfmMceDependencies ==
    {d \in {AgentAt(agents, 1).info.readDependencies[1],
            AgentAt(agents, 0).info.writeDependencies[1],
            AgentAt(agents, 0).info.scheduleDependencies[1]} : d.relativeAgentId # 0}

RECURSIVE CompileOps(_, _, _)
CompileOps(o, i, st) ==
    IF i > Len(o)
    THEN st
    ELSE CompileOps(o, i + 1,
            CASE o[i].kind = "Dma" ->
                    [ProcessDmaOp(st.agents, st.opToAgent, i, o[i], 0) @@
                     [pleKernelToLoader |-> st.pleKernelToLoader]
                     EXCEPT !.pleKernelToLoader = st.pleKernelToLoader]
              [] o[i].kind = "Mce" -> ProcessMceOp(st.agents, st.opToAgent, st.pleKernelToLoader, i, o[i])
              [] o[i].kind = "Ple" ->
                    [ProcessPleOp(st.agents, st.opToAgent, i) @@
                     [pleKernelToLoader |-> st.pleKernelToLoader]
                     EXCEPT !.pleKernelToLoader = st.pleKernelToLoader]
              [] OTHER -> st)

\* An op list in which n MceOps read the SRAM buffer loaded by op 1.
ExecMceGeometry == CHOOSE g \in MceGeometries : GetChannels(g.ifmShape) = GetChannels(g.ifmStripeShape)

RECURSIVE SharedIfmOps(_)
SharedIfmOps(n) ==
    IF n = 0
    THEN << [kind |-> "Dma", inLoc |-> "Dram", inFormat |-> "NHWCB", outLoc |-> "Sram", dram |-> 1, src |-> 0] >>
    ELSE LET before == SharedIfmOps(n - 1)
             wgt    == Len(before) + 1
             g      == ExecMceGeometry
         IN  before \o
             << [kind |-> "Dma", inLoc |-> "Dram", inFormat |-> "WEIGHT", outLoc |-> "Sram",
                 dram |-> 2 * n, src |-> 0],
                [kind |-> "Mce", in0 |-> 1, in1 |-> wgt, pleLoadKernel |-> FALSE,
                 pleKernelId |-> CHOOSE k \in PleKernelIds : TRUE, ofmShape |-> g.ofmShape,
                 outputStripeShape |-> g.outputStripeShape, ofmBufStripeShape |-> g.ofmBufStripeShape,
                 ifmShape |-> g.ifmShape, ifmStripeShape |-> g.ifmStripeShape, wgtShape |-> g.wgtShape],
                [kind |-> "Ple", mce |-> wgt + 1, loadKernel |-> FALSE,
                 pleKernelId |-> CHOOSE k \in PleKernelIds : TRUE],
                [kind |-> "Dma", inLoc |-> "Sram", inFormat |-> "NHWCB", outLoc |-> "Dram",
                 dram |-> 2 * n + 1, src |-> wgt + 2] >>

SharedIfmBuffers(o) ==
    [b \in 1..(1 + (Len(o) - 1) \div 2) |->
        IF b = 1 THEN [type |-> "Input", producer |-> 0, consumers |-> {1}]
        ELSE IF b % 2 = 0 THEN [type |-> "ConstantDma", producer |-> 0, consumers |-> {2 * b - 2}]
        ELSE [type |-> "Output", producer |-> 2 * b - 1, consumers |-> {}]]

\* The agents that execute: the IfmStreamer of op 1, the agents whose read dependency names
\* it, and the agents its recorded write dependency makes it wait for.
ExecProducer == opToAgent[1]
ExecReaders ==
    {a \in 0..(Len(agents) - 1) :
        /\ AgentAt(agents, a).type = "MCE_SCHEDULER"
        /\ AgentAt(agents, a).info.readDependencies[1].relativeAgentId = a - ExecProducer}
ExecWaitedFor ==
    LET rel == AgentAt(agents, ExecProducer).info.writeDependencies[1].relativeAgentId
    IN  IF rel = 0 THEN {} ELSE {ExecProducer + rel}

InitExec ==
    \E n \in 1..MaxReaders, numSlots \in 1..MaxSlots :
        LET o    == SharedIfmOps(n)
            done == CompileOps(o, 1, [agents |-> <<>>, opToAgent |-> <<>>, pleKernelToLoader |-> <<>>])
        IN  /\ ops = o
            /\ dramBufs = SharedIfmBuffers(o)
            /\ agents = done.agents
            /\ opToAgent = done.opToAgent
            /\ pleKernelToLoader = done.pleKernelToLoader
            /\ intermBufToBufId = <<>>
            /\ bufMgr = [hasCommandStream |-> TRUE, commandStream |-> done.agents, lifetimes |-> {}]
            /\ result = "ok"
            /\ sAgent = [kind |-> "none"]
            /\ PlanIdle
            /\ exec = [phase |-> "running", numSlots |-> numSlots, written |-> 0,
                       slots |-> [k \in 0..(numSlots - 1) |-> -1],
                       readPos |-> [a \in 0..(Len(done.agents) - 1) |-> 0]]

\* The producer writes its next stripe into the next slot of its tile.
ExecWriteStripe ==
    /\ exec.phase = "running"
    /\ exec.written < MaxExecStripes
    /\ LET slot == exec.written % exec.numSlots
       IN  /\ \A a \in ExecWaitedFor : exec.slots[slot] < exec.readPos[a]
           /\ exec' = [exec EXCEPT !.slots[slot] = exec.written, !.written = @ + 1]
    /\ UNCHANGED <<compileVars, sAgent, planVars>>

\* A reader reads its next stripe, which the producer has written.
ExecReadStripe ==
    /\ exec.phase = "running"
    /\ \E a \in ExecReaders :
          /\ exec.readPos[a] < exec.written
          /\ exec' = [exec EXCEPT !.readPos[a] = @ + 1]
    /\ UNCHANGED <<compileVars, sAgent, planVars>>

NextExec ==
    \/ ExecWriteStripe
    \/ ExecReadStripe

SpecExec == InitExec /\ [][NextExec]_vars

\* C3: in an execution that honours the recorded write dependencies, the producer never
\* overwrites a slot of its tile before every reader of the buffer has advanced past the
\* stripe in it: each stripe written and not yet read by some reader is still in its slot,
\* whatever the number of readers.
C3_NoOverwriteBeforeRead ==
    exec.phase = "running" =>
        \A a \in ExecReaders :
            \A k \in exec.readPos[a]..(exec.written - 1) :
                exec.slots[k % exec.numSlots] = k


(***************************************************************************)
(* Lifetimes of Intermediate DRAM buffers.  The op graphs are chains of    *)
(* stages, each an IFM DmaOp, a weights DmaOp, an MceOp, its PleOp and an  *)
(* OFM DmaOp; a stage loads the DRAM buffer the stage before it stored,    *)
(* which is of type Intermediate.  Compile has gone through the op list    *)
(* and is about to call AddLifetimeInfoForIntermediateDramBuffers.         *)
(***************************************************************************)
StageChoices == [g : MceGeometries, kernel : PleKernelIds, load : BOOLEAN]

\* The five ops of stage n.
StageOps(n, choice) ==
    LET base == 5 * (n - 1)
        g    == choice.g
    IN  << [kind |-> "Dma", inLoc |-> "Dram", inFormat |-> "NHWCB", outLoc |-> "Sram",
            dram |-> 2 * n - 1, src |-> 0],
           [kind |-> "Dma", inLoc |-> "Dram", inFormat |-> "WEIGHT", outLoc |-> "Sram",
            dram |-> 2 * n, src |-> 0],
           [kind |-> "Mce", in0 |-> base + 1, in1 |-> base + 2, pleLoadKernel |-> choice.load,
            pleKernelId |-> choice.kernel, ofmShape |-> g.ofmShape,
            outputStripeShape |-> g.outputStripeShape, ofmBufStripeShape |-> g.ofmBufStripeShape,
            ifmShape |-> g.ifmShape, ifmStripeShape |-> g.ifmStripeShape, wgtShape |-> g.wgtShape],
           [kind |-> "Ple", mce |-> base + 3, loadKernel |-> choice.load,
            pleKernelId |-> choice.kernel],
           [kind |-> "Dma", inLoc |-> "Sram", inFormat |-> "NHWCB", outLoc |-> "Dram",
            dram |-> 2 * n + 1, src |-> base + 4] >>

\* The DRAM buffers stage n adds: its weights and the buffer it stores, of the given type;
\* stage 1 adds the network input before them.
StageBuffers(n, type) ==
    (IF n = 1 THEN << [type |-> "Input", producer |-> 0, consumers |-> {1}] >> ELSE <<>>) \o
    << [type |-> "ConstantDma", producer |-> 0, consumers |-> {5 * n - 3}],
       [type |-> type, producer |-> 5 * n, consumers |-> {}] >>

\* The loop of Compile goes through the five ops of the next stage.
CompileStage ==
    /\ CompileRunning
    /\ Len(ops) < 5 * MaxStages
    /\ IF Len(ops) = 0 THEN TRUE ELSE dramBufs[Len(dramBufs)].type = "Intermediate"
    /\ \E choice \in StageChoices, type \in {"Output", "Intermediate"} :
          LET n    == Len(ops) \div 5 + 1
              o    == ops \o StageOps(n, choice)
              done == CompileOps(o, Len(ops) + 1, [agents |-> agents, opToAgent |-> opToAgent,
                                                   pleKernelToLoader |-> pleKernelToLoader])
          IN  /\ ops' = o
              /\ dramBufs' = (IF n = 1 THEN <<>>
                              ELSE [dramBufs EXCEPT ![2 * n - 1].consumers = {5 * n - 4}])
                             \o StageBuffers(n, type)
              /\ agents' = done.agents
              /\ opToAgent' = done.opToAgent
              /\ pleKernelToLoader' = done.pleKernelToLoader
    /\ UNCHANGED <<intermBufToBufId, bufMgr, result, sAgent, exec, planVars>>

NextLifetime ==
    \/ CompileStage
    \/ CompileFinish

SpecLifetime == Init /\ [][NextLifetime]_vars

\* Compile has run AddLifetimeInfoForIntermediateDramBuffers.
LifetimeStepRan == result \in {"ok", "std::out_of_range"}

\* C11: Compile of an op graph of supported ops succeeds, and the buffer manager then
\* holds, for every Intermediate DRAM buffer, the interval [agent id of its producer,
\* 1 + largest agent id of its consumers), and no interval besides these.
C11_IntermediateLifetimesPublished ==
    LifetimeStepRan =>
        /\ result = "ok"
        /\ \A b \in IntermediateBufs(dramBufs) :
               \E l \in bufMgr.lifetimes :
                   /\ l.start = opToAgent[dramBufs[b].producer]
                   /\ l.end = 1 + MaxOf({opToAgent[c] : c \in dramBufs[b].consumers})
        /\ Cardinality(bufMgr.lifetimes) <= Cardinality(IntermediateBufs(dramBufs))

\* C12: an IFM/OFM streamer agent (traversal order Xyz) whose strides are set has
\* stripeIdStrides.width = 1, stripeIdStrides.height = numStripes.width and
\* stripeIdStrides.channels = numStripes.width * numStripes.height: the stripe id
\* advances through width fastest, then height, then channels.
C12_StreamerStridesWidthFastest ==
    (sAgent.kind = "FmS" /\ sAgent.stridesSet) =>
        /\ sAgent.stripeIdStrides.width = 1
        /\ sAgent.stripeIdStrides.height = sAgent.numStripes.width
        /\ sAgent.stripeIdStrides.channels = sAgent.numStripes.width * sAgent.numStripes.height

(***************************************************************************)
(* Plan generation of a part (PartV1.cpp): every candidate plan goes       *)
(* through AddNewPlan, which keeps it if IsPlanValid.  A plan is the       *)
(* sequence of the buffers of its op graph, each with its location and     *)
(* m_SizeInBytes.                                                          *)
(***************************************************************************)
\* SRAM sizes of the hardware variants, in bytes.
TotalSramSizes == {262144, 524288}

\* The candidate plans: an input and an output buffer.
CandidatePlans == [1..2 -> [location : {"Sram", "Dram"}, sizeInBytes : {131072, 262144, 393216}]]

\* Total SRAM occupancy of a plan: the sizes of its SRAM buffers added up.
GetTotSizeInBytes(plan) ==
    SumOver([i \in DOMAIN plan |-> IF plan[i].location = "Sram" THEN plan[i].sizeInBytes ELSE 0], DOMAIN plan)

IsPlanValidWhateverItsSize(caps, plan) == TRUE

\* IsPlanValid
IsPlanValid(caps, plan) == ~(GetTotSizeInBytes(plan) > caps.totalSramSize)

\* PartV1::AddNewPlan
AddNewPlan(caps, plan, plans) == IF IsPlanValid(caps, plan) THEN Append(plans, plan) ELSE plans

InitPlans ==
    /\ CompileInit
    /\ sAgent = [kind |-> "none"]
    /\ exec = ExecIdle
    /\ \E sram \in TotalSramSizes :
          part = [kind |-> "PartV1", caps |-> [totalSramSize |-> sram], candidates |-> <<>>, plans |-> <<>>]
    /\ sramBuf = NoBuffer
    /\ gen = NoGenerator
    /\ cfgRun = NoConfigRun
    /\ combiner = NoCombiner
    /\ perf = NoComparison

\* GetPlans builds its next candidate plan and hands it to AddNewPlan.
PartAddNewPlan ==
    /\ part.kind = "PartV1"
    /\ Len(part.candidates) < MaxCandidates
    /\ \E plan \in CandidatePlans :
          part' = [part EXCEPT !.candidates = Append(@, plan),
                               !.plans = AddNewPlan(part.caps, plan, @)]
    /\ UNCHANGED <<compileVars, sAgent, exec, sramBuf, gen, cfgRun, combiner, perf>>

SpecPlans == InitPlans /\ [][PartAddNewPlan]_vars

PlanFits(plan) == GetTotSizeInBytes(plan) <= part.caps.totalSramSize

\* C13: every plan in the part's plan list has a total SRAM occupancy of at most the
\* hardware's total SRAM size, and the plan list is made of the candidates that fit, in
\* the order they came: a candidate that exceeds the size is dropped, no error is raised,
\* and the candidates before and after it are kept as if it had not been there.
C13_OnlyFittingPlansKept ==
    part.kind = "PartV1" =>
        /\ \A i \in 1..Len(part.plans) : PlanFits(part.plans[i])
        /\ part.plans = SelectSeq(part.candidates, PlanFits)

\* A candidate too large for the SRAM was dropped and the candidate after it was kept.
C13_Witness ==
    /\ part.kind = "PartV1"
    /\ Len(part.candidates) = 2
    /\ ~PlanFits(part.candidates[1])
    /\ part.plans = <<part.candidates[2]>>

(***************************************************************************)
(* Tile sizes (PartUtils.cpp, impl::CalculateTileSize) of the SRAM buffers *)
(* a plan adds (StandalonePlePart::GetPlans).                              *)
(***************************************************************************)
g_BrickGroupShape == <<1, 8, 8, 16>>
g_FcafDeepCellShape == <<1, 8, 8, 32>>
g_FcafWideCellShape == <<1, 8, 16, 16>>

Min(a, b) == IF a < b THEN a ELSE b
Max(a, b) == IF a > b THEN a ELSE b
RoundUpToNearestMultiple(x, m) == DivRoundUp(x, m) * m
TotalSizeBytes(shape) == shape[1] * shape[2] * shape[3] * shape[4]

\* An encoding of 0 takes the whole dimension; otherwise the dimension is clamped to the
\* tensor's, and height and width are rounded up to the brick group, channels to
\* channelRounding.
CreateStripe(tensor, encoding, channelRounding) ==
    LET dim(d) == IF encoding[d] = 0 THEN tensor[d] ELSE Min(encoding[d], tensor[d])
    IN  <<1, RoundUpToNearestMultiple(dim(2), g_BrickGroupShape[2]),
             RoundUpToNearestMultiple(dim(3), g_BrickGroupShape[3]),
             RoundUpToNearestMultiple(dim(4), channelRounding)>>

\* A stripe shape suits an FCAF cell shape if every dimension that is split is split at
\* multiples of the cell.
IsCompressionFormatCompatibleWithStripeShape(cellShape, stripeShape, tensorShape) ==
    \A d \in 2..4 : stripeShape[d] % cellShape[d] = 0 \/ stripeShape[d] >= tensorShape[d]

\* The byte count of the whole tensor, brick-aligned.
MaxTileSize(tensorShape, widthMultiple, heightMultiple) ==
    RoundUpToNearestMultiple(GetHeight(tensorShape), heightMultiple)
        * RoundUpToNearestMultiple(GetWidth(tensorShape), widthMultiple)
        * RoundUpToNearestMultiple(GetChannels(tensorShape), GetChannels(g_BrickGroupShape))

AnyPackedBoundaryData(b) == b.left > 0 \/ b.top > 0 \/ b.right > 0 \/ b.bottom > 0

\* The slot size CalculateTileSize arrives at.
TileSlotSize(inputTensorShape, inputStripeShape, packedBoundaryThickness, couldSourceBeFcaf) ==
    LET inclBoundary == <<1,
                          GetHeight(inputStripeShape) + packedBoundaryThickness.top + packedBoundaryThickness.bottom,
                          GetWidth(inputStripeShape) + packedBoundaryThickness.left + packedBoundaryThickness.right,
                          GetChannels(inputStripeShape)>>
        fcaf(cell)   == /\ couldSourceBeFcaf
                        /\ ~AnyPackedBoundaryData(packedBoundaryThickness)
                        /\ IsCompressionFormatCompatibleWithStripeShape(cell, inputStripeShape, inputTensorShape)
        round(shape, cell, on) ==
            IF on THEN <<1, RoundUpToNearestMultiple(GetHeight(shape), GetHeight(cell)),
                            RoundUpToNearestMultiple(GetWidth(shape), GetWidth(cell)), GetChannels(shape)>>
            ELSE shape
        deep == fcaf(g_FcafDeepCellShape)
        wide == fcaf(g_FcafWideCellShape)
    IN  [slotSize |-> TotalSizeBytes(round(round(inclBoundary, g_FcafDeepCellShape, deep), g_FcafWideCellShape, wide)),
         widthMultiple  |-> Max(IF deep THEN Max(GetWidth(g_BrickGroupShape), GetWidth(g_FcafDeepCellShape))
                                ELSE GetWidth(g_BrickGroupShape),
                                IF wide THEN GetWidth(g_FcafWideCellShape) ELSE 0),
         heightMultiple |-> Max(IF deep THEN Max(GetHeight(g_BrickGroupShape), GetHeight(g_FcafDeepCellShape))
                                ELSE GetHeight(g_BrickGroupShape),
                                IF wide THEN GetHeight(g_FcafWideCellShape) ELSE 0)]

CalculateTileSizeClampedToTensorBytes(inputTensorShape, inputStripeShape, packedBoundaryThickness, numStripes, couldSourceBeFcaf) ==
    LET slot == TileSlotSize(inputTensorShape, inputStripeShape, packedBoundaryThickness, couldSourceBeFcaf)
    IN  [slotSizeInBytes |-> slot.slotSize,
         sizeInBytes |-> IF AnyPackedBoundaryData(packedBoundaryThickness)
                         THEN slot.slotSize * numStripes
                         ELSE Min(TotalSizeBytes(inputTensorShape), slot.slotSize * numStripes)]

\* impl::CalculateTileSize.  The byte counts of the shapes sized here stay far below 2^32,
\* so the uint32_t products do not wrap.
CalculateTileSize(inputTensorShape, inputStripeShape, packedBoundaryThickness, numStripes, couldSourceBeFcaf) ==
    LET slot == TileSlotSize(inputTensorShape, inputStripeShape, packedBoundaryThickness, couldSourceBeFcaf)
        inputFullStripeSize == slot.slotSize * numStripes
    IN  [slotSizeInBytes |-> slot.slotSize,
         sizeInBytes |-> IF AnyPackedBoundaryData(packedBoundaryThickness)
                         THEN inputFullStripeSize
                         ELSE Min(MaxTileSize(inputTensorShape, slot.widthMultiple, slot.heightMultiple),
                                  inputFullStripeSize)]

\* A buffer about to be sized: its tensor, the stripe CreateStripe makes of an encoding,
\* the packed boundary thickness, the number of slots and whether the source could be FCAF.
InitTile ==
    /\ CompileInit
    /\ sAgent = [kind |-> "none"]
    /\ exec = ExecIdle
    /\ part = NoPart
    /\ gen = NoGenerator
    /\ cfgRun = NoConfigRun
    /\ combiner = NoCombiner
    /\ perf = NoComparison
    /\ \E tensor \in {<<1, h, w, c>> : h \in {16, 65}, w \in {8, 16, 17}, c \in {16, 40}},
          encoding \in {<<0, h, w, c>> : h \in {0, 8, 64}, w \in {0, 8}, c \in {0, 16}},
          boundary \in {[left |-> 0, top |-> 0, right |-> 0, bottom |-> 0],
                        [left |-> 0, top |-> 8, right |-> 0, bottom |-> 8]},
          n \in 1..MaxTileSlots, fcaf \in BOOLEAN :
          sramBuf = [sized |-> "no", m_TensorShape |-> tensor,
                     m_StripeShape |-> CreateStripe(tensor, encoding, GetChannels(g_BrickGroupShape)),
                     packedBoundaryThickness |-> boundary, m_NumStripes |-> n, couldSourceBeFcaf |-> fcaf,
                     m_SlotSizeInBytes |-> 0, m_SizeInBytes |-> 0]

\* The plan sizes the tile of the buffer and stores slot size and size in it.
SizeSramBuffer ==
    /\ sramBuf.sized = "no"
    /\ LET tileSize == CalculateTileSize(sramBuf.m_TensorShape, sramBuf.m_StripeShape,
                                         sramBuf.packedBoundaryThickness, sramBuf.m_NumStripes,
                                         sramBuf.couldSourceBeFcaf)
       IN  sramBuf' = [sramBuf EXCEPT !.sized = "yes", !.m_SlotSizeInBytes = tileSize.slotSizeInBytes,
                                      !.m_SizeInBytes = tileSize.sizeInBytes]
    /\ UNCHANGED <<compileVars, sAgent, exec, part, gen, cfgRun, combiner, perf>>

SpecTile == InitTile /\ [][SizeSramBuffer]_vars

\* The number of stripes in the tensor of the buffer.
StripesInTensor ==
    DivRoundUp(GetHeight(sramBuf.m_TensorShape), GetHeight(sramBuf.m_StripeShape))
        * DivRoundUp(GetWidth(sramBuf.m_TensorShape), GetWidth(sramBuf.m_StripeShape))
        * DivRoundUp(GetChannels(sramBuf.m_TensorShape), GetChannels(sramBuf.m_StripeShape))

SlotsFitInTile == sramBuf.m_SlotSizeInBytes * Min(sramBuf.m_NumStripes, StripesInTensor) <= sramBuf.m_SizeInBytes

\* Every dimension of the tensor is covered by one stripe or is a multiple of the stripe's.
StripesDivideTensor ==
    \A d \in 2..4 : \/ sramBuf.m_StripeShape[d] >= sramBuf.m_TensorShape[d]
                    \/ sramBuf.m_TensorShape[d] % sramBuf.m_StripeShape[d] = 0

\* C14: for every SRAM buffer sized by the tile-size calculation with n slots,
\* slot size * min(n, number of stripes in the tensor) <= size in bytes, whatever the
\* tensor shape, also when its dimensions are not multiples of the stripe shape.
C14_SlotsFitInTile == sramBuf.sized = "yes" => SlotsFitInTile

\* C14 amended: the inequality holds for a buffer with packed boundary data and for a
\* buffer every dimension of whose tensor is covered by one stripe or is a multiple of the
\* stripe's; in every case the tile is no larger than n slots.
C14_SlotsFitInTileAmended ==
    sramBuf.sized = "yes" =>
        /\ sramBuf.m_SizeInBytes <= sramBuf.m_SlotSizeInBytes * sramBuf.m_NumStripes
        /\ (AnyPackedBoundaryData(sramBuf.packedBoundaryThickness) \/ StripesDivideTensor) => SlotsFitInTile

\* A tile clamped to the brick-aligned tensor that still holds min(n, stripes) slots.
C14_Witness ==
    /\ sramBuf.sized = "yes"
    /\ ~AnyPackedBoundaryData(sramBuf.packedBoundaryThickness)
    /\ StripesDivideTensor
    /\ StripesInTensor > 1
    /\ sramBuf.m_SizeInBytes < sramBuf.m_SlotSizeInBytes * sramBuf.m_NumStripes

(***************************************************************************)
(* The stripe generator (StripeHelper.cpp).  A StripeGenerator is the      *)
(* record of its members; capabilities and StripeConfig are records of     *)
(* the fields GenerateStripes reads.  A stripe candidate is the record of the MceAndPleInfo   *)
(* that AddStripeInfos inserts (the MceOnly, PleOnly and DmaOnly infos     *)
(* inserted with it repeat its fields); the packed boundary thickness is   *)
(* left out.                                                               *)
(***************************************************************************)
\* A defaultly constructed StripeConfig has everything enabled.
DefaultStripeConfig ==
    [splits |-> [s \in {"mceAndPleOutputHeight", "mceOutputHeightOnly", "widthOnly", "widthHeight",
                        "widthHeightOutputDepth", "widthHeightOutputDepthInputDepth", "outputDepthInputDepth",
                        "mceOutputDepthOnly", "mceAndPleOutputDepth", "inputDepthOnly", "none"} |-> TRUE],
     blockConfigs |-> << <<16, 16>>, <<16, 8>>, <<8, 16>>, <<8, 8>>, <<32, 8>>, <<8, 32>> >>,
     blockWidthMultiplier  |-> [min |-> 1, max |-> 2147483647],
     blockHeightMultiplier |-> [min |-> 1, max |-> 2147483647],
     ifmDepthMultiplier    |-> [min |-> 1, max |-> 2147483647],
     ofmDepthMultiplier    |-> [min |-> 1, max |-> 2147483647],
     planTypes |-> [t \in {"beginning", "middle", "end", "lonely"} |-> TRUE]]

\* The splits StripeConfig::DisableSplitHeight, Width, InputDepth and OutputDepth switch off.
SplitsAlong(dimension) ==
    CASE dimension = "Height" -> {"mceAndPleOutputHeight", "mceOutputHeightOnly", "widthHeight",
                                  "widthHeightOutputDepth", "widthHeightOutputDepthInputDepth"}
      [] dimension = "Width" -> {"widthOnly", "widthHeight", "widthHeightOutputDepth",
                                 "widthHeightOutputDepthInputDepth"}
      [] dimension = "InputDepth" -> {"widthHeightOutputDepthInputDepth", "outputDepthInputDepth",
                                      "inputDepthOnly"}
      [] dimension = "OutputDepth" -> {"mceAndPleOutputDepth", "outputDepthInputDepth", "widthHeightOutputDepth",
                                       "widthHeightOutputDepthInputDepth", "mceOutputDepthOnly"}

DisableSplits(stripeConfig, dimensions) ==
    [stripeConfig EXCEPT !.splits = [s \in DOMAIN @ |-> @[s] /\ \A d \in dimensions : s \notin SplitsAlong(d)]]

\* StripeGenerator::ApplyPleKernelSplitRestrictions
ApplyPleKernelSplitRestrictions(sg, cascadeType) ==
    IF sg.m_KernelOperation \in {"MAXPOOL_3X3_2_2_EVEN", "MAXPOOL_3X3_2_2_ODD"}
    THEN IF cascadeType = "Beginning"
         THEN DisableSplits(sg.m_StripeConfig, {"Height", "Width", "InputDepth", "OutputDepth"})
         ELSE DisableSplits(sg.m_StripeConfig, {"Width"})
    ELSE sg.m_StripeConfig

\* StripeGenerator::CreateNumStripes, for the cascade types that do not fail.
CreateNumStripes(cascadeType, requiresBoundaryData) ==
    [input    |-> IF requiresBoundaryData THEN [m_Min |-> 3, m_Max |-> 4] ELSE [m_Min |-> 1, m_Max |-> 2],
     output   |-> IF cascadeType = "Beginning" THEN [m_Min |-> 1, m_Max |-> 3] ELSE [m_Min |-> 1, m_Max |-> 2],
     weights  |-> [m_Min |-> 1, m_Max |-> 2],
     pleInput |-> [m_Min |-> 0, m_Max |-> 0]]

\* uint32_t * Fraction and TensorShape * ShapeMultiplier; a Fraction is <<numerator, denominator>>.
MulFraction(value, f) == (value * f[1]) \div f[2]
MulShape(shape, m) ==
    <<shape[1], MulFraction(shape[2], m.m_H), MulFraction(shape[3], m.m_W), MulFraction(shape[4], m.m_C)>>

\* The two stripe-count checks of AddStripeInfos against the firmware limits.
NoStripeLimits(caps, numMceStripesPerPle, numIfmAndWgtStripesPerPle) == FALSE

ExceedsStripeLimits(caps, numMceStripesPerPle, numIfmAndWgtStripesPerPle) ==
    \/ numMceStripesPerPle > caps.maxMceStripesPerPleStripe
    \/ numIfmAndWgtStripesPerPle > caps.maxIfmAndWgtStripesPerPleStripe

\* numIfmLoads and numWeightLoads of AddStripeInfos.
IfmLoadsWhateverTheInputStripe(sg, mceInputStripe, mceOutputStripe, inputShape) ==
    LET isDepthwise == sg.m_Operation = "DEPTHWISE_CONVOLUTION"
    IN  [ifm |-> IF ~isDepthwise
                 THEN DivRoundUp(GetChannels(sg.m_MceOutputTensorShape), GetChannels(mceOutputStripe))
                 ELSE 1,
         weights |-> IF ~isDepthwise /\ GetChannels(mceInputStripe) < GetChannels(inputShape)
                     THEN DivRoundUp(GetWidth(sg.m_MceOutputTensorShape), GetWidth(mceOutputStripe))
                              * DivRoundUp(GetHeight(sg.m_MceOutputTensorShape), GetHeight(mceOutputStripe))
                     ELSE 1]

WeightLoadsPerInputDepthStripe(sg, mceInputStripe, mceOutputStripe, inputShape) ==
    LET isDepthwise == sg.m_Operation = "DEPTHWISE_CONVOLUTION"
    IN  [ifm |-> IF ~isDepthwise /\ (\/ GetWidth(mceInputStripe) < GetWidth(inputShape)
                                     \/ GetHeight(mceInputStripe) < GetHeight(inputShape)
                                     \/ GetChannels(mceInputStripe) < GetChannels(inputShape))
                 THEN DivRoundUp(GetChannels(sg.m_MceOutputTensorShape), GetChannels(mceOutputStripe))
                 ELSE 1,
         weights |-> IF ~isDepthwise
                     THEN DivRoundUp(GetChannels(inputShape), GetChannels(mceInputStripe))
                     ELSE 1]

NumLoads(sg, mceInputStripe, mceOutputStripe, inputShape) ==
    LET isDepthwise == sg.m_Operation = "DEPTHWISE_CONVOLUTION"
    IN  [ifm |-> IF ~isDepthwise /\ (\/ GetWidth(mceInputStripe) < GetWidth(inputShape)
                                     \/ GetHeight(mceInputStripe) < GetHeight(inputShape)
                                     \/ GetChannels(mceInputStripe) < GetChannels(inputShape))
                 THEN DivRoundUp(GetChannels(sg.m_MceOutputTensorShape), GetChannels(mceOutputStripe))
                 ELSE 1,
         weights |-> IF ~isDepthwise /\ GetChannels(mceInputStripe) < GetChannels(inputShape)
                     THEN DivRoundUp(GetWidth(sg.m_MceOutputTensorShape), GetWidth(mceOutputStripe))
                              * DivRoundUp(GetHeight(sg.m_MceOutputTensorShape), GetHeight(mceOutputStripe))
                     ELSE 1]

\* The lambda AddStripeInfos of GenerateStripes: the set of the candidate it inserts, empty
\* if it returns before inserting.  stripes and ranges hold its stripe-shape and NumStripes
\* arguments.
AddStripeInfos(sg, blockConfig, stripes, ranges, inputShape, outputShape) ==
    LET mceInputStripe  == stripes.mceInput
        mceOutputStripe == stripes.mceOutput
        pleInputStripe  == stripes.pleInput
        pleOutputStripe == stripes.pleOutput
        memoryInputStripe  == stripes.memoryInput
        memoryOutputStripe == stripes.memoryOutput
        inputRange  == ranges.input
        outputRange == ranges.output
        weightRange == ranges.weights
        stripesIn(shape, stripe) == DivRoundUp(GetHeight(shape), GetHeight(stripe))
                                        * DivRoundUp(GetWidth(shape), GetWidth(stripe))
                                        * DivRoundUp(GetChannels(shape), GetChannels(stripe))
        limit(range, n) == [m_Min |-> Min(range.m_Min, Min(range.m_Max, n)), m_Max |-> Min(range.m_Max, n)]
        inputCopy  == limit(inputRange, stripesIn(inputShape, memoryInputStripe))
        outputCopy == limit(outputRange, stripesIn(outputShape, memoryOutputStripe))
        multipleStripes == inputCopy.m_Max > 1 /\ outputCopy.m_Max > 1
        stripesLargerThanTensor == /\ TotalSizeBytes(memoryInputStripe) > TotalSizeBytes(inputShape)
                                   /\ TotalSizeBytes(memoryOutputStripe) > TotalSizeBytes(outputShape)
        numMceStripesPerPle == DivRoundUp(GetChannels(pleInputStripe), GetChannels(mceOutputStripe))
                                   * DivRoundUp(GetChannels(inputShape), GetChannels(mceInputStripe))
        numIfmStripesPerMce == DivRoundUp(GetWidth(mceInputStripe), GetWidth(memoryInputStripe))
                                   * DivRoundUp(GetHeight(mceInputStripe), GetHeight(memoryInputStripe))
                                   * DivRoundUp(GetChannels(mceInputStripe), GetChannels(memoryInputStripe))
        numIfmAndWgtStripesPerPle == (numIfmStripesPerMce + 1) * numMceStripesPerPle
        isDepthwise == sg.m_Operation = "DEPTHWISE_CONVOLUTION"
        mceWeightStripe == <<sg.m_KernelHeight, sg.m_KernelWidth, mceInputStripe[4],
                             IF isDepthwise THEN 1 ELSE mceOutputStripe[4]>>
        weightCopy == IF isDepthwise
                      THEN (IF mceWeightStripe[3] >= sg.m_MceInputTensorShape[4]
                            THEN [weightRange EXCEPT !.m_Max = 1] ELSE weightRange)
                      ELSE (IF mceWeightStripe[4] >= sg.m_MceOutputTensorShape[4]
                            THEN [weightRange EXCEPT !.m_Max = 1] ELSE weightRange)
        loads == NumLoads(sg, mceInputStripe, mceOutputStripe, inputShape)
    IN  IF multipleStripes /\ stripesLargerThanTensor THEN {}
        ELSE IF ExceedsStripeLimits(sg.m_Capabilities, numMceStripesPerPle, numIfmAndWgtStripesPerPle) THEN {}
        ELSE {[blockConfig |-> blockConfig, inputShape |-> inputShape,
               mceInput |-> mceInputStripe, mceOutput |-> mceOutputStripe, mceWeight |-> mceWeightStripe,
               pleInput |-> pleInputStripe, pleOutput |-> pleOutputStripe,
               memoryInput  |-> [range |-> inputCopy, shape |-> memoryInputStripe, numLoads |-> loads.ifm],
               memoryOutput |-> [range |-> outputCopy, shape |-> memoryOutputStripe],
               memoryWeight |-> [range |-> weightCopy, shape |-> mceWeightStripe, numLoads |-> loads.weights]]}

\* The values a loop "for (m = min; m <= max; m *= 2)" goes through, min being positive.
RECURSIVE MultiplierLoop(_, _)
MultiplierLoop(m, max) == IF m > max THEN {} ELSE {m} \cup MultiplierLoop(2 * m, max)

\* StripeGenerator::GenerateStripes(blockConfig, cascadeType, outStripeInfos): the candidates it inserts.
\* A block config is <<width, height>>.
GenerateStripes(sg, blockConfig, cascadeType) ==
    LET numOgs     == sg.m_Capabilities.numberOfOgs
        brickDepth == g_BrickGroupShape[4]
        blockWidth  == blockConfig[1]
        blockHeight == blockConfig[2]
        stripeConfig == ApplyPleKernelSplitRestrictions(sg, cascadeType)
        strideMultiplier == sg.m_Stride.m_X * sg.m_Stride.m_Y
        isDepthwise == sg.m_Operation = "DEPTHWISE_CONVOLUTION"
        mceOutputShape == sg.m_MceOutputTensorShape
        outputShape == sg.m_PleOutputTensorShape
        inputShape == sg.m_MceInputTensorShape
        requiresBoundaryData == sg.m_KernelHeight > 1 \/ sg.m_KernelWidth > 1 \/ sg.m_UpscaleFactor > 1
        num == CreateNumStripes(cascadeType, requiresBoundaryData)
        one(range) == [m_Min |-> Min(range.m_Min, 1), m_Max |-> Min(range.m_Max, 1)]
        kernelWidthOne(range) == IF sg.m_KernelWidth = 1 THEN [m_Min |-> 1, m_Max |-> 2] ELSE range
        minBlockWidthMultiplier ==
            Max(g_BrickGroupShape[3] \div MulFraction(blockWidth, sg.m_PleShapeMultiplier.m_W),
                sg.m_StripeConfig.blockWidthMultiplier.min)
        maxBlockWidthMultiplier ==
            Max(1, Min(GetWidth(inputShape) \div blockWidth, sg.m_StripeConfig.blockWidthMultiplier.max))
        minBlockHeightMultiplier ==
            Max(g_BrickGroupShape[2] \div MulFraction(blockHeight, sg.m_PleShapeMultiplier.m_H),
                sg.m_StripeConfig.blockHeightMultiplier.min)
        maxBlockHeightMultiplier ==
            Max(1, Min(GetHeight(inputShape) \div blockHeight, sg.m_StripeConfig.blockHeightMultiplier.max))
        minIfmDepthMultiplier == Max(1, sg.m_StripeConfig.ifmDepthMultiplier.min)
        maxIfmDepthMultiplier ==
            Max(1, Min(GetChannels(inputShape) \div (numOgs * strideMultiplier),
                       sg.m_StripeConfig.ifmDepthMultiplier.max))
        minOfmDepthMultiplier == Max(1, sg.m_StripeConfig.ofmDepthMultiplier.min)
        maxOfmDepthMultiplier ==
            Max(1, Min(GetChannels(mceOutputShape) \div numOgs, sg.m_StripeConfig.ofmDepthMultiplier.max))
        heights == MultiplierLoop(minBlockHeightMultiplier, maxBlockHeightMultiplier)
        widths  == MultiplierLoop(minBlockWidthMultiplier, maxBlockWidthMultiplier)
        ifms    == MultiplierLoop(minIfmDepthMultiplier, maxIfmDepthMultiplier)
        ofms    == MultiplierLoop(minOfmDepthMultiplier, maxOfmDepthMultiplier)
        \* The body shared by the branches: the stripes made from the two encodings, then AddStripeInfos.
        \* pleFull: the PLE stripes are the full tensors; memoryFull: the memory output stripe is.
        add(mceInputEncoding, mceOutputEncoding, rounding, pleFull, memoryFull, inputRange, outputRange,
            weightRange) ==
            LET mceInputStripe  == CreateStripe(inputShape, mceInputEncoding, brickDepth)
                mceOutputStripe == CreateStripe(mceOutputShape, mceOutputEncoding, rounding)
                pleOutputEncoding == MulShape(mceOutputEncoding, sg.m_PleShapeMultiplier)
                pleInputStripe  == IF pleFull THEN CreateStripe(mceOutputShape, <<0, 0, 0, 0>>, brickDepth)
                                   ELSE mceOutputStripe
                pleOutputStripe == IF pleFull THEN CreateStripe(outputShape, <<0, 0, 0, 0>>, brickDepth)
                                   ELSE CreateStripe(outputShape, pleOutputEncoding, rounding)
                memoryOutputStripe == IF memoryFull THEN CreateStripe(outputShape, <<0, 0, 0, 0>>, brickDepth)
                                      ELSE CreateStripe(outputShape, pleOutputEncoding, brickDepth)
            IN  AddStripeInfos(sg, blockConfig,
                               [mceInput |-> mceInputStripe, mceOutput |-> mceOutputStripe,
                                pleInput |-> pleInputStripe, pleOutput |-> pleOutputStripe,
                                memoryInput |-> mceInputStripe, memoryOutput |-> memoryOutputStripe],
                               [input |-> inputRange, output |-> outputRange, weights |-> weightRange],
                               inputShape, outputShape)
        mce(encoding) == MulShape(encoding, sg.m_MceShapeMultiplier)
        when(split, candidates) == IF stripeConfig.splits[split] THEN candidates ELSE {}
        lonely(candidates) == IF cascadeType = "Lonely" THEN candidates ELSE {}
        heightEncoding == <<0, minBlockHeightMultiplier * blockHeight, 0, 0>>
        widthEncoding  == <<0, 0, minBlockWidthMultiplier * blockWidth, 0>>
        inputDepthEncoding == <<0, minBlockWidthMultiplier * blockHeight, minBlockHeightMultiplier * blockWidth,
                                0>>
    IN  when("mceAndPleOutputHeight",
             add(heightEncoding, mce(heightEncoding), brickDepth, FALSE, FALSE,
                 num.input, num.output, one(num.weights)))
        \cup when("mceOutputHeightOnly",
             add(heightEncoding, mce(heightEncoding), brickDepth, FALSE, TRUE,
                 num.input, one(num.output), one(num.weights)))
        \cup when("widthOnly",
             add(widthEncoding, mce(widthEncoding), brickDepth, FALSE, FALSE,
                 kernelWidthOne(num.input), num.output, one(num.weights)))
        \cup lonely(when("widthHeight",
             UNION {add(<<0, h * blockHeight, w * blockWidth, 0>>, mce(<<0, h * blockHeight, w * blockWidth, 0>>),
                        brickDepth, FALSE, FALSE, kernelWidthOne(num.input), num.output, one(num.weights))
                    : <<h, w>> \in heights \X widths}))
        \cup (IF isDepthwise
              THEN lonely(when("outputDepthInputDepth",
                       UNION {add(<<0, 0, 0, i * numOgs>>, mce(<<0, 0, 0, i * numOgs>>), numOgs, FALSE, FALSE,
                                  num.input, num.output, num.weights) : i \in ifms}))
                   \cup lonely(when("widthHeightOutputDepthInputDepth",
                       UNION {add(<<0, x[1] * blockHeight, x[2] * blockWidth, x[3] * numOgs * strideMultiplier>>,
                                  mce(<<0, x[1] * blockHeight, x[2] * blockWidth, x[3] * numOgs>>), numOgs,
                                  FALSE, FALSE, num.input, num.output, num.weights)
                              : x \in heights \X widths \X ifms}))
                   \cup when("outputDepthInputDepth",
                       add(<<0, 0, 0, numOgs>>, mce(<<0, 0, 0, numOgs>>), numOgs, TRUE, TRUE,
                           num.input, num.output, num.weights))
              ELSE lonely(when("mceAndPleOutputDepth",
                       UNION {add(<<0, 0, 0, 0>>, mce(<<0, 0, 0, numOgs * o>>), numOgs, FALSE, FALSE,
                                  one(num.input), num.output, num.weights) : o \in ofms}))
                   \cup lonely(when("widthHeightOutputDepth",
                       UNION {add(<<0, h * blockHeight, w * blockWidth, 0>>,
                                  mce(<<0, h * blockHeight, w * blockWidth, numOgs>>), numOgs, FALSE, FALSE,
                                  num.input, num.output, num.weights) : <<h, w>> \in heights \X widths}))
                   \cup lonely(when("widthHeightOutputDepthInputDepth",
                       UNION {add([inputDepthEncoding EXCEPT ![4] = i * numOgs * strideMultiplier],
                                  [mce([inputDepthEncoding EXCEPT ![4] = i * numOgs * strideMultiplier])
                                       EXCEPT ![4] = numOgs],
                                  numOgs, FALSE, FALSE, num.input, num.output, num.weights) : i \in ifms}))
                   \cup when("mceOutputDepthOnly",
                       add(<<0, 0, 0, 0>>, mce(<<0, 0, 0, numOgs>>), numOgs, TRUE, TRUE,
                           one(num.input), num.output, num.weights)))
        \cup when("none",
             add(<<0, 0, 0, 0>>, mce(<<0, 0, 0, 0>>), brickDepth, FALSE, FALSE,
                 one(num.input), one(num.output), one(num.weights)))

(***************************************************************************)
(* Stripe generation as a state machine: a StripeGenerator is constructed  *)
(* for an MCE operation and a fused PLE kernel, and                        *)
(* GenerateStripes(cascadeType) goes through the block configs of its      *)
(* StripeConfig, one call of GenerateStripes(blockConfig, ...) per step.   *)
(***************************************************************************)
\* The MCE/PLE pairs stripes are generated for: convolutions and depthwise convolutions followed
\* by an identity PLE kernel, and a convolution followed by a 3x3 max pooling of stride 2.
StripeGenerators ==
    LET identity == [m_H |-> <<1, 1>>, m_W |-> <<1, 1>>, m_C |-> <<1, 1>>]
    IN
    {[m_MceInputTensorShape |-> <<1, hw[1], hw[2], c[1]>>,
      m_MceOutputTensorShape |-> <<1, hw[1], hw[2], c[2]>>,
      m_PleOutputTensorShape |-> MulShape(<<1, hw[1], hw[2], c[2]>>, k[2]),
      m_KernelHeight |-> kernel, m_KernelWidth |-> kernel,
      m_Stride |-> [m_X |-> 1, m_Y |-> 1], m_UpscaleFactor |-> 1,
      m_Operation |-> op, m_KernelOperation |-> k[1],
      m_MceShapeMultiplier |-> identity, m_PleShapeMultiplier |-> k[2],
      m_Capabilities |-> [numberOfOgs |-> 16, maxMceStripesPerPleStripe |-> limits[1],
                          maxIfmAndWgtStripesPerPleStripe |-> limits[2]],
      m_StripeConfig |-> DefaultStripeConfig]
     : hw \in {<<8, 8>>, <<16, 32>>},
       c \in {<<16, 16>>, <<64, 32>>, <<32, 64>>},
       kernel \in {1, 3},
       op \in {"CONVOLUTION", "DEPTHWISE_CONVOLUTION"},
       k \in {<<"PASSTHROUGH", identity>>,
              <<"MAXPOOL_3X3_2_2_EVEN", [m_H |-> <<1, 2>>, m_W |-> <<1, 2>>, m_C |-> <<1, 1>>]>>},
       limits \in {<<2, 4>>, <<4, 8>>, <<64, 64>>}}

InitStripes ==
    /\ CompileInit
    /\ sAgent = [kind |-> "none"]
    /\ exec = ExecIdle
    /\ part = NoPart
    /\ sramBuf = NoBuffer
    /\ cfgRun = NoConfigRun
    /\ combiner = NoCombiner
    /\ perf = NoComparison
    /\ \E sg \in StripeGenerators, cascadeType \in {"Beginning", "Lonely"} :
           /\ sg.m_Operation = "DEPTHWISE_CONVOLUTION"
                  => sg.m_MceInputTensorShape[4] = sg.m_MceOutputTensorShape[4]
           /\ gen = [sg |-> sg, cascadeType |-> cascadeType, next |-> 1, stripeInfos |-> {}]

\* One turn of the loop of StripeGenerator::GenerateStripes(cascadeType).
GenerateStripesForBlockConfig ==
    /\ gen.cascadeType # "none"
    /\ gen.next <= Len(gen.sg.m_StripeConfig.blockConfigs)
    /\ gen' = [gen EXCEPT
                   !.stripeInfos = @ \cup GenerateStripes(gen.sg, gen.sg.m_StripeConfig.blockConfigs[gen.next],
                                                          gen.cascadeType),
                   !.next = @ + 1]
    /\ UNCHANGED <<compileVars, sAgent, exec, part, sramBuf, cfgRun, combiner, perf>>

SpecStripes == InitStripes /\ [][GenerateStripesForBlockConfig]_vars

(***************************************************************************)
(* Properties of the stripe candidates.                                    *)
(***************************************************************************)
GenerationDone == gen.cascadeType # "none" /\ gen.next > Len(gen.sg.m_StripeConfig.blockConfigs)
MceStripesPerPle(c) ==
    DivRoundUp(GetChannels(c.pleInput), GetChannels(c.mceOutput))
        * DivRoundUp(GetChannels(c.inputShape), GetChannels(c.mceInput))
IfmStripesPerMce(c) ==
    DivRoundUp(GetWidth(c.mceInput), GetWidth(c.memoryInput.shape))
        * DivRoundUp(GetHeight(c.mceInput), GetHeight(c.memoryInput.shape))
        * DivRoundUp(GetChannels(c.mceInput), GetChannels(c.memoryInput.shape))

\* C15: no emitted stripe candidate exceeds a firmware stripe-count limit: its number of MCE
\* stripes per PLE stripe, ceil(ple_in_C / mce_out_C) * ceil(tensor_in_C / mce_in_C), is at most
\* the capability limit, and (ifm_stripes_per_mce + 1) times that number is at most the limit
\* on IFM and weight stripes per PLE stripe.
C15_CandidatesWithinStripeLimits ==
    gen.cascadeType # "none" =>
        \A c \in gen.stripeInfos :
            /\ MceStripesPerPle(c) <= gen.sg.m_Capabilities.maxMceStripesPerPleStripe
            /\ (IfmStripesPerMce(c) + 1) * MceStripesPerPle(c)
                   <= gen.sg.m_Capabilities.maxIfmAndWgtStripesPerPleStripe

\* A generator with tight limits has finished, and kept a candidate that sits exactly on the
\* limit of MCE stripes per PLE stripe.
C15_Witness ==
    /\ GenerationDone
    /\ gen.sg.m_Capabilities.maxMceStripesPerPleStripe = 2
    /\ \E c \in gen.stripeInfos : MceStripesPerPle(c) = 2

IsDepthwise == gen.sg.m_Operation = "DEPTHWISE_CONVOLUTION"
OutputDepthStripes(c) == DivRoundUp(GetChannels(gen.sg.m_MceOutputTensorShape), GetChannels(c.mceOutput))
OutputPlaneStripes(c) ==
    DivRoundUp(GetWidth(gen.sg.m_MceOutputTensorShape), GetWidth(c.mceOutput))
        * DivRoundUp(GetHeight(gen.sg.m_MceOutputTensorShape), GetHeight(c.mceOutput))
InputStripeCoversTensor(c) ==
    /\ GetWidth(c.mceInput) >= GetWidth(c.inputShape)
    /\ GetHeight(c.mceInput) >= GetHeight(c.inputShape)
    /\ GetChannels(c.mceInput) >= GetChannels(c.inputShape)
InputDepthSplit(c) == GetChannels(c.mceInput) < GetChannels(c.inputShape)

\* C16: for every emitted stripe candidate, if the MCE operation is not depthwise and the
\* output depth is split into more than one stripe, the IFM is loaded once per output-depth
\* stripe (more than once), also when the input stripe covers the whole input tensor; if the
\* operation is depthwise the IFM is loaded once.
C16_IfmReloadedPerOutputDepthStripe ==
    gen.cascadeType # "none" =>
        \A c \in gen.stripeInfos :
            /\ (~IsDepthwise /\ OutputDepthStripes(c) > 1)
                   => (c.memoryInput.numLoads > 1 /\ c.memoryInput.numLoads = OutputDepthStripes(c))
            /\ IsDepthwise => c.memoryInput.numLoads = 1

\* C16 as the code has it: the IFM is loaded once per output-depth stripe when the operation
\* is not depthwise and the MCE input stripe is smaller than the input tensor in width,
\* height or channels; it is loaded once when the operation is depthwise or the input stripe
\* covers the whole input tensor.
C16_IfmReloadedWhenInputIsSplit ==
    gen.cascadeType # "none" =>
        \A c \in gen.stripeInfos :
            /\ (~IsDepthwise /\ ~InputStripeCoversTensor(c)) => c.memoryInput.numLoads = OutputDepthStripes(c)
            /\ (IsDepthwise \/ InputStripeCoversTensor(c)) => c.memoryInput.numLoads = 1

\* A finished generation of a convolution holds a candidate that reloads its split IFM for
\* each of several output-depth stripes, and one whose whole-tensor IFM is loaded once although
\* the output depth is split.
C16_Witness ==
    /\ GenerationDone
    /\ ~IsDepthwise
    /\ \E c \in gen.stripeInfos :
           ~InputStripeCoversTensor(c) /\ OutputDepthStripes(c) > 1 /\ c.memoryInput.numLoads > 1
    /\ \E c \in gen.stripeInfos :
           InputStripeCoversTensor(c) /\ OutputDepthStripes(c) > 1 /\ c.memoryInput.numLoads = 1

\* C17: for every emitted stripe candidate, if the MCE operation is not depthwise and the
\* input depth is split, the weights are loaded more than once, whatever the split in width
\* and height; if the operation is depthwise the weights are loaded once.
C17_WeightsReloadedWhenInputDepthSplit ==
    gen.cascadeType # "none" =>
        \A c \in gen.stripeInfos :
            /\ (~IsDepthwise /\ InputDepthSplit(c)) => c.memoryWeight.numLoads > 1
            /\ IsDepthwise => c.memoryWeight.numLoads = 1

\* C17 as the code has it: when the operation is not depthwise and the input depth is split,
\* the weights are loaded once per output stripe in the width-height plane (so once when
\* neither width nor height is split); otherwise they are loaded once.
C17_WeightsReloadedPerOutputPlaneStripe ==
    gen.cascadeType # "none" =>
        \A c \in gen.stripeInfos :
            /\ (~IsDepthwise /\ InputDepthSplit(c)) => c.memoryWeight.numLoads = OutputPlaneStripes(c)
            /\ (IsDepthwise \/ ~InputDepthSplit(c)) => c.memoryWeight.numLoads = 1

\* A finished generation of a convolution holds a candidate with split input depth whose
\* weights are reloaded for each of several output stripes in the plane.
C17_Witness ==
    /\ GenerationDone
    /\ ~IsDepthwise
    /\ \E c \in gen.stripeInfos :
           InputDepthSplit(c) /\ OutputPlaneStripes(c) > 1 /\ c.memoryWeight.numLoads = OutputPlaneStripes(c)

(***************************************************************************)
(* GetDefaultStripeConfig (StripeHelper.cpp): the StripeConfig of a part   *)
(* from the compilation options and, when the environment variable         *)
(* ETHOSN_SUPPORT_LIBRARY_DEBUG_STRIPE_CONFIG names a file, from the       *)
(* sections of that file.  A line of the file is the record of what Trim,  *)
(* Split and the block config regex make of it:                            *)
(*   kind "blank"   - empty after Trim, or a comment;                      *)
(*   kind "section" - ends with ':', text is the regex before the colon;   *)
(*   kind "command" - holds no '=', text is the line;                      *)
(*   kind "assign"  - splits at '=' into two parts, text is the name,      *)
(*                    value the characters of the value, block the <<w, h>>*)
(*                    of a name of the form BlockConfig(w,h), else <<>>;   *)
(*   kind "other"   - splits at '=' into another number of parts.          *)
(***************************************************************************)
\* Most lines of a config file.
MaxLines == 3

\* The lambda valueUInt: std::stoul skips leading white space, takes an optional '+' and the
\* longest run of decimal digits, and throws when there is no digit; what follows the digits
\* is ignored.  (A leading '-' is not among the values of the model.)
ValueUInt(valueStr) ==
    LET Digits == {"0", "1", "2", "3", "4", "5", "6", "7", "8", "9"}
        RECURSIVE SkipSpace(_)
        SkipSpace(str) == IF str # <<>> /\ Head(str) = " " THEN SkipSpace(Tail(str)) ELSE str
        RECURSIVE DigitsValue(_, _)
        DigitsValue(str, acc) ==
            IF str = <<>> \/ Head(str) \notin Digits THEN acc
            ELSE DigitsValue(Tail(str), 10 * acc + CHOOSE n \in 0..9 : ToString(n) = Head(str))
        unsigned == SkipSpace(valueStr)
        digits == IF unsigned # <<>> /\ Head(unsigned) = "+" THEN Tail(unsigned) ELSE unsigned
    IN  [error |-> digits = <<>> \/ Head(digits) \notin Digits, value |-> DigitsValue(digits, 0)]

\* removeBlockConfig leaving the list as it is.
KeepBlockConfig(config, b) == config

\* The lambda removeBlockConfig
RemoveBlockConfig(config, b) == [config EXCEPT !.blockConfigs = SelectSeq(@, LAMBDA c : c # b)]

\* GetDefaultStripeConfig up to the config file: the strategies and block configs of the
\* compilation options.  options.strategies is the set of the enabled legacy strategies,
\* options.blockConfigs the set of the <<w, h>> whose m_BlockConfig<w>x<h> is on; removed(o)
\* is the BlockConfig the code hands to removeBlockConfig when that option is off.
ApplyCompilationOptions(options) ==
    LET enable == [st \in {0, 1, 3, 4, 6, 7} |->
                       CASE st = 0 -> {"mceAndPleOutputHeight"}
                         [] st = 1 -> {"mceAndPleOutputDepth", "outputDepthInputDepth"}
                         [] st = 3 -> {"none"}
                         [] st = 4 -> {"widthOnly"}
                         [] st = 6 -> {"widthHeight", "widthHeightOutputDepth"}
                         [] st = 7 -> {"widthHeightOutputDepthInputDepth"}]
        splits == IF options.strategies # {0, 1, 3, 4, 6, 7}
                  THEN [DefaultStripeConfig EXCEPT
                            !.splits = [sp \in DOMAIN @ |-> \E st \in options.strategies : sp \in enable[st]]]
                  ELSE DefaultStripeConfig
        removed(o) == IF o = <<8, 32>> THEN <<8, 832>> ELSE o
        RECURSIVE RemoveDisabled(_, _)
        RemoveDisabled(config, order) ==
            IF order = <<>> THEN config
            ELSE RemoveDisabled(IF Head(order) \notin options.blockConfigs
                                THEN RemoveBlockConfig(config, removed(Head(order)))
                                ELSE config,
                                Tail(order))
    IN  RemoveDisabled(splits, << <<8, 8>>, <<8, 16>>, <<16, 8>>, <<16, 16>>, <<32, 8>>, <<8, 32>> >>)

\* std::regex_match of the identifier against the regex of a section: the regexes of the
\* model are ".*" and literal part names.
RegexMatchesEveryPart(identifier, regex) == TRUE

RegexMatch(identifier, regex) == regex = ".*" \/ regex = identifier

\* A command within a section whose regex matched: the new config, and whether reportError
\* was called.
ProcessCommand(config, line) ==
    LET SplitOfName ==
            [n \in {"Splits.MceAndPleOutputHeight", "Splits.MceOutputHeightOnly", "Splits.WidthOnly",
                    "Splits.WidthHeight", "Splits.WidthHeightOutputDepth",
                    "Splits.WidthHeightOutputDepthInputDepth", "Splits.OutputDepthInputDepth",
                    "Splits.MceOutputDepthOnly", "Splits.MceAndPleOutputDepth", "Splits.InputDepthOnly",
                    "Splits.None"} |->
                CASE n = "Splits.MceAndPleOutputHeight" -> "mceAndPleOutputHeight"
                  [] n = "Splits.MceOutputHeightOnly" -> "mceOutputHeightOnly"
                  [] n = "Splits.WidthOnly" -> "widthOnly"
                  [] n = "Splits.WidthHeight" -> "widthHeight"
                  [] n = "Splits.WidthHeightOutputDepth" -> "widthHeightOutputDepth"
                  [] n = "Splits.WidthHeightOutputDepthInputDepth" -> "widthHeightOutputDepthInputDepth"
                  [] n = "Splits.OutputDepthInputDepth" -> "outputDepthInputDepth"
                  [] n = "Splits.MceOutputDepthOnly" -> "mceOutputDepthOnly"
                  [] n = "Splits.MceAndPleOutputDepth" -> "mceAndPleOutputDepth"
                  [] n = "Splits.InputDepthOnly" -> "inputDepthOnly"
                  [] n = "Splits.None" -> "none"]
        Mins == {"BlockWidthMultiplier.Min", "BlockHeightMultiplier.Min", "IfmDepthMultiplier.Min",
                 "OfmDepthMultiplier.Min"}
        MultiplierOfName ==
            [n \in Mins \cup {"BlockWidthMultiplier.Max", "BlockHeightMultiplier.Max", "IfmDepthMultiplier.Max",
                               "OfmDepthMultiplier.Max"} |->
                <<CASE n \in {"BlockWidthMultiplier.Min", "BlockWidthMultiplier.Max"} -> "blockWidthMultiplier"
                    [] n \in {"BlockHeightMultiplier.Min", "BlockHeightMultiplier.Max"} -> "blockHeightMultiplier"
                    [] n \in {"IfmDepthMultiplier.Min", "IfmDepthMultiplier.Max"} -> "ifmDepthMultiplier"
                    [] n \in {"OfmDepthMultiplier.Min", "OfmDepthMultiplier.Max"} -> "ofmDepthMultiplier",
                  IF n \in Mins THEN "min" ELSE "max">>]
        PlanTypeOfName ==
            [n \in {"PlanTypes.Beginning", "PlanTypes.Middle", "PlanTypes.End", "PlanTypes.Lonely"} |->
                CASE n = "PlanTypes.Beginning" -> "beginning" [] n = "PlanTypes.Middle" -> "middle"
                  [] n = "PlanTypes.End" -> "end" [] n = "PlanTypes.Lonely" -> "lonely"]
        \* the lambda valueBool
        ValueBool(valueStr) ==
            IF valueStr = <<"T", "r", "u", "e">> THEN [error |-> FALSE, value |-> TRUE]
            ELSE IF valueStr = <<"F", "a", "l", "s", "e">> THEN [error |-> FALSE, value |-> FALSE]
            ELSE [error |-> TRUE, value |-> FALSE]
        DisableAllSplits(c) == [c EXCEPT !.splits = [sp \in DOMAIN @ |-> FALSE]]
        ok(r) == [error |-> FALSE, config |-> r]
        failed == [error |-> TRUE, config |-> config]
        bool == ValueBool(line.value)
        uint == ValueUInt(line.value)
    IN  IF line.kind = "command" /\ line.text = "DisableAll"
        THEN ok([DisableAllSplits(config) EXCEPT !.blockConfigs = <<>>])
        ELSE IF line.kind = "command" /\ line.text = "DisableAllSplits" THEN ok(DisableAllSplits(config))
        ELSE IF line.kind = "command" /\ line.text = "DisableAllBlockConfigs"
        THEN ok([config EXCEPT !.blockConfigs = <<>>])
        ELSE IF line.kind = "assign"
        THEN IF line.text \in DOMAIN SplitOfName
             THEN IF bool.error THEN failed
                  ELSE ok([config EXCEPT !.splits[SplitOfName[line.text]] = bool.value])
             ELSE IF line.block # <<>>
             THEN IF bool.error THEN failed
                  ELSE IF bool.value
                  THEN ok(IF \E i \in DOMAIN config.blockConfigs : config.blockConfigs[i] = line.block
                          THEN config
                          ELSE [config EXCEPT !.blockConfigs = Append(@, line.block)])
                  ELSE ok(RemoveBlockConfig(config, line.block))
             ELSE IF line.text \in DOMAIN MultiplierOfName
             THEN IF uint.error THEN failed
                  ELSE ok([config EXCEPT ![MultiplierOfName[line.text][1]][MultiplierOfName[line.text][2]]
                                             = uint.value])
             ELSE IF line.text \in DOMAIN PlanTypeOfName
             THEN IF bool.error THEN failed
                  ELSE ok([config EXCEPT !.planTypes[PlanTypeOfName[line.text]] = bool.value])
             ELSE failed
        ELSE failed

(***************************************************************************)
(* GetDefaultStripeConfig as a state machine: the call applies the         *)
(* compilation options and opens the file, then reads the file line by     *)
(* line.                                                                   *)
(***************************************************************************)
InitConfig ==
    LET line(kind, text, value, block) == [kind |-> kind, text |-> text, value |-> value, block |-> block]
        ConfigLines ==
            {line("blank", "# a comment", <<>>, <<>>),
             line("section", ".*", <<>>, <<>>),
             line("section", "McePart 3", <<>>, <<>>),
             line("command", "DisableAll", <<>>, <<>>),
             line("assign", "Splits.None", <<"F", "a", "l", "s", "e">>, <<>>),
             line("assign", "Splits.None", <<"Y", "e", "s">>, <<>>),
             line("assign", "Splits.Bogus", <<"T", "r", "u", "e">>, <<>>),
             line("assign", "BlockConfig(8,8)", <<"F", "a", "l", "s", "e">>, <<8, 8>>),
             line("assign", "BlockWidthMultiplier.Min", <<"1", "2", "a">>, <<>>),
             line("assign", "BlockWidthMultiplier.Min", <<"x">>, <<>>)}
        \* the lines of a section that enables and disables settings in turn
        SectionLines ==
            {line("section", "McePart 3", <<>>, <<>>),
             line("command", "DisableAll", <<>>, <<>>),
             line("command", "DisableAllSplits", <<>>, <<>>),
             line("command", "DisableAllBlockConfigs", <<>>, <<>>),
             line("assign", "Splits.WidthHeight", <<"T", "r", "u", "e">>, <<>>),
             line("assign", "Splits.WidthHeight", <<"F", "a", "l", "s", "e">>, <<>>),
             line("assign", "BlockConfig(8,8)", <<"T", "r", "u", "e">>, <<8, 8>>),
             line("assign", "BlockConfig(8,8)", <<"F", "a", "l", "s", "e">>, <<8, 8>>),
             line("assign", "BlockWidthMultiplier.Min", <<"0">>, <<>>)}
        Files ==
            UNION {[1..n -> ConfigLines] : n \in 0..MaxLines}
                \cup {<<header>> \o commands :
                          header \in {line("section", ".*", <<>>, <<>>), line("section", "McePart 3", <<>>, <<>>)},
                          commands \in [1..MaxLines -> SectionLines]}
        AllOptions == { <<8, 8>>, <<8, 16>>, <<16, 8>>, <<16, 16>>, <<32, 8>>, <<8, 32>> }
    IN
    /\ CompileInit
    /\ sAgent = [kind |-> "none"]
    /\ exec = ExecIdle
    /\ part = NoPart
    /\ sramBuf = NoBuffer
    /\ gen = NoGenerator
    /\ combiner = NoCombiner
    /\ perf = NoComparison
    /\ \E env \in BOOLEAN, identifier \in {"McePart 3", "McePart 4"},
          strategies \in {{0, 1, 3, 4, 6, 7}, {3}, {0, 1, 4, 6}},
          blockConfigs \in SUBSET AllOptions,
          good \in BOOLEAN :
          \E lines \in Files :
              /\ env => (strategies = {0, 1, 3, 4, 6, 7} /\ blockConfigs = AllOptions)
              /\ ~env => (identifier = "McePart 3" /\ ~good)
              /\ ~good => lines = <<>>
              /\ cfgRun = [options |-> [strategies |-> strategies, blockConfigs |-> blockConfigs],
                           env |-> env, file |-> [good |-> good, lines |-> lines], identifier |-> identifier,
                           lineNumber |-> 0, active |-> FALSE, config |-> DefaultStripeConfig,
                           outcome |-> "called"]

\* GetDefaultStripeConfig from its entry to the first getline.
GetDefaultStripeConfigOpen ==
    /\ cfgRun.outcome = "called"
    /\ cfgRun' = [cfgRun EXCEPT
                      !.config = ApplyCompilationOptions(cfgRun.options),
                      !.outcome = IF ~cfgRun.env THEN "returned"
                                  ELSE IF ~cfgRun.file.good THEN "std::runtime_error"
                                  ELSE IF cfgRun.file.lines = <<>> THEN "returned"
                                  ELSE "reading"]
    /\ UNCHANGED <<compileVars, sAgent, exec, part, sramBuf, gen, combiner, perf>>

\* One turn of the getline loop; after the last line the function returns.
GetDefaultStripeConfigLine ==
    /\ cfgRun.outcome = "reading"
    /\ LET line == cfgRun.file.lines[cfgRun.lineNumber + 1]
           done == IF cfgRun.lineNumber + 1 = Len(cfgRun.file.lines) THEN "returned" ELSE "reading"
           processed == ProcessCommand(cfgRun.config, line)
       IN  cfgRun' =
               IF line.kind = "blank"
               THEN [cfgRun EXCEPT !.lineNumber = @ + 1, !.outcome = done]
               ELSE IF line.kind = "section"
               THEN [cfgRun EXCEPT !.lineNumber = @ + 1, !.outcome = done,
                                   !.active = RegexMatch(cfgRun.identifier, line.text)]
               ELSE IF ~cfgRun.active
               THEN [cfgRun EXCEPT !.lineNumber = @ + 1, !.outcome = done]
               ELSE IF processed.error
               THEN [cfgRun EXCEPT !.lineNumber = @ + 1, !.outcome = "std::runtime_error"]
               ELSE [cfgRun EXCEPT !.lineNumber = @ + 1, !.outcome = done, !.config = processed.config]
    /\ UNCHANGED <<compileVars, sAgent, exec, part, sramBuf, gen, combiner, perf>>

SpecConfig == InitConfig /\ [][GetDefaultStripeConfigOpen \/ GetDefaultStripeConfigLine]_vars

SixBlockConfigs == { <<8, 8>>, <<8, 16>>, <<16, 8>>, <<16, 16>>, <<32, 8>>, <<8, 32>> }
ConfigFinished == cfgRun.outcome \in {"returned", "std::runtime_error"}
BlockConfigsOf(config) == {config.blockConfigs[i] : i \in DOMAIN config.blockConfigs}

\* C18: without a debug config file, the StripeConfig that GetDefaultStripeConfig returns
\* holds each of the six block configs 8x8, 8x16, 16x8, 16x16, 32x8, 8x32 exactly when its
\* compilation option is enabled.
C18_DisabledBlockConfigsRemoved ==
    (cfgRun.outcome = "returned" /\ ~cfgRun.env) =>
        \A b \in SixBlockConfigs :
            b \in BlockConfigsOf(cfgRun.config) <=> b \in cfgRun.options.blockConfigs

\* The names and values of the file grammar: a line assigns a known name a well-formed value.
BooleanNames ==
    {"Splits." \o n : n \in {"MceAndPleOutputHeight", "MceOutputHeightOnly", "WidthOnly", "WidthHeight",
                             "WidthHeightOutputDepth", "WidthHeightOutputDepthInputDepth",
                             "OutputDepthInputDepth", "MceOutputDepthOnly", "MceAndPleOutputDepth",
                             "InputDepthOnly", "None"}}
        \cup {"PlanTypes." \o n : n \in {"Beginning", "Middle", "End", "Lonely"}}
NumberNames ==
    {m \o b : m \in {"BlockWidthMultiplier", "BlockHeightMultiplier", "IfmDepthMultiplier",
                     "OfmDepthMultiplier"}, b \in {".Min", ".Max"}}
IsUnsignedDecimal(value) ==
    value # <<>> /\ \A i \in DOMAIN value : value[i] \in {"0", "1", "2", "3", "4", "5", "6", "7", "8", "9"}
IsBoolean(value) == value \in {<<"T", "r", "u", "e">>, <<"F", "a", "l", "s", "e">>}
HasUnknownNameOrMalformedValue(line) ==
    /\ line.kind = "assign"
    /\ IF line.text \in NumberNames THEN ~IsUnsignedDecimal(line.value)
       ELSE IF line.text \in BooleanNames \/ line.block # <<>> THEN ~IsBoolean(line.value)
       ELSE TRUE
\* The line is in a section whose regex matches the identifier of the part.
InMatchingSection(i) ==
    \E j \in 1..(i - 1) :
        /\ cfgRun.file.lines[j].kind = "section"
        /\ cfgRun.file.lines[j].text \in {".*", cfgRun.identifier}
        /\ \A k \in (j + 1)..(i - 1) : cfgRun.file.lines[k].kind # "section"
\* What the parser refuses: an unknown command or name, a boolean other than True or False,
\* a number that does not begin (after white space and '+') with a decimal digit.
StartsWithDigit(value) ==
    \E i \in DOMAIN value :
        /\ value[i] \in {"0", "1", "2", "3", "4", "5", "6", "7", "8", "9"}
        /\ \A k \in 1..(i - 1) : value[k] = " " \/ (value[k] = "+" /\ k = i - 1)
IsRefused(line) ==
    \/ line.kind = "other"
    \/ line.kind = "command" /\ line.text \notin {"DisableAll", "DisableAllSplits", "DisableAllBlockConfigs"}
    \/ /\ line.kind = "assign"
       /\ IF line.text \in NumberNames THEN ~StartsWithDigit(line.value)
          ELSE IF line.text \in BooleanNames \/ line.block # <<>> THEN ~IsBoolean(line.value)
          ELSE TRUE

MaxQueries == 4

GetPlansUncached(c, key) ==
    [c EXCEPT !.m_PlanCache = [k \in DOMAIN @ \cup {key} |-> <<>>],
              !.numGetPlansCalled = @ + 1]

GetPlansCached(c, key) ==
    IF key \in DOMAIN c.m_PlanCache
    THEN c
    ELSE [c EXCEPT !.m_PlanCache = [k \in DOMAIN @ \cup {key} |-> IF k = key THEN <<>> ELSE @[k]],
                   !.numGetPlansCalled = @ + 1]

InitCache ==
    /\ CompileInit
    /\ sAgent = [kind |-> "none"]
    /\ exec = ExecIdle
    /\ part = NoPart
    /\ sramBuf = NoBuffer
    /\ gen = NoGenerator
    /\ cfgRun = NoConfigRun
    /\ combiner = [kind |-> "Combiner", m_PlanCache |-> <<>>, numGetPlansCalled |-> 0, queries |-> <<>>]
    /\ perf = NoComparison

\* combiner.GetPlansCached(part, cascadeType, blockConfig, prevBuffer, numWeightStripes); the
\* queries are the one of the test and those that differ from it in one component of the key.
QueryPlans ==
    /\ combiner.kind = "Combiner"
    /\ Len(combiner.queries) < MaxQueries
    /\ LET query == [partId |-> 0, cascadeType |-> "Middle", blockConfig |-> <<8, 8>>,
                     prevBuffer |-> "nullptr", numWeightStripes |-> 0]
       IN  \E key \in {query, [query EXCEPT !.partId = 1], [query EXCEPT !.cascadeType = "End"],
                       [query EXCEPT !.blockConfig = <<16, 16>>], [query EXCEPT !.prevBuffer = "buffer"],
                       [query EXCEPT !.numWeightStripes = 1]} :
               combiner' = [GetPlansCached(combiner, key) EXCEPT !.queries = Append(@, key)]
    /\ UNCHANGED <<compileVars, sAgent, exec, part, sramBuf, gen, cfgRun, perf>>

SpecCache == InitCache /\ [][QueryPlans]_vars

DistinctQueries == {combiner.queries[i] : i \in DOMAIN combiner.queries}

\* C20: across any sequence of cached plan queries on one combiner, the plan generator of the
\* parts has been invoked exactly once per distinct key (part, cascade type, block config,
\* previous buffer, number of weight stripes) queried: a repeated query is a cache hit, a
\* query for a different part is not.
C20_GeneratorInvokedOncePerKey ==
    combiner.kind = "Combiner" =>
        /\ combiner.numGetPlansCalled = Cardinality(DistinctQueries)
        /\ DOMAIN combiner.m_PlanCache = DistinctQueries

\* The queries of the test: the same key twice, then the key of another part; two calls.
C20_Witness ==
    /\ combiner.kind = "Combiner"
    /\ Len(combiner.queries) = 3
    /\ combiner.queries[1] = combiner.queries[2]
    /\ combiner.queries[3] = [combiner.queries[1] EXCEPT !.partId = 1]
    /\ combiner.numGetPlansCalled = 2

(***************************************************************************)
(* Comparing performance estimates (EstimationUtils.cpp).  A               *)
(* NetworkPerformanceData is the sequence m_Stream of its passes; a pass   *)
(* holds the m_DramNonParallel and m_DramParallel byte counts of its       *)
(* input, output and weights.                                              *)
(***************************************************************************)
\* Most passes of an estimate.
MaxPasses == 2

\* GetPerformanceMetric with the four metric functions it dispatches to.
GetPerformanceMetric(netPerfData, metricType) ==
    LET RECURSIVE Sum(_, _)
        Sum(stream, field) ==
            IF stream = <<>> THEN 0
            ELSE Head(stream).m_Input[field] + Head(stream).m_Output[field] + Head(stream).m_Weights[field]
                     + Sum(Tail(stream), field)
    IN  CASE metricType = "Total" -> Sum(netPerfData, "m_DramParallel") + Sum(netPerfData, "m_DramNonParallel")
          [] metricType = "Parallel" -> Sum(netPerfData, "m_DramParallel")
          [] metricType = "NonParallel" -> Sum(netPerfData, "m_DramNonParallel")
          [] metricType = "Passes" -> Len(netPerfData)

MetricOrderWithoutNonParallel == <<"Total", "Passes">>

g_MetricOrder == <<"Total", "NonParallel", "Passes">>

ComparePerformanceData(left, right) ==
    LET RECURSIVE Compare(_)
        Compare(order) ==
            IF order = <<>> THEN "Equal"
            ELSE IF GetPerformanceMetric(left, Head(order)) < GetPerformanceMetric(right, Head(order))
            THEN "LeftBetter"
            ELSE IF GetPerformanceMetric(left, Head(order)) > GetPerformanceMetric(right, Head(order))
            THEN "RightBetter"
            ELSE Compare(Tail(order))
    IN  Compare(g_MetricOrder)

InitCompare ==
    LET stats(nonParallel, parallel) == [m_DramNonParallel |-> nonParallel, m_DramParallel |-> parallel]
        Passes == {[m_Input |-> stats(i, 0), m_Output |-> stats(0, o), m_Weights |-> stats(0, 0)]
                   : i \in {0, 1}, o \in {0, 1}}
                  \cup {[m_Input |-> stats(0, 0), m_Output |-> stats(0, 0), m_Weights |-> stats(w, w)]
                        : w \in {1, 2}}
        Streams == UNION {[1..n -> Passes] : n \in 0..MaxPasses}
    IN  /\ CompileInit
        /\ sAgent = [kind |-> "none"]
        /\ exec = ExecIdle
        /\ part = NoPart
        /\ sramBuf = NoBuffer
        /\ gen = NoGenerator
        /\ cfgRun = NoConfigRun
        /\ combiner = NoCombiner
        /\ \E left \in Streams, right \in Streams :
               perf = [left |-> left, right |-> right, result |-> "called", swapped |-> "called"]

\* ComparePerformanceData(left, right) and ComparePerformanceData(right, left)
ComparePerformance ==
    /\ perf.result = "called"
    /\ perf' = [perf EXCEPT !.result = ComparePerformanceData(perf.left, perf.right),
                            !.swapped = ComparePerformanceData(perf.right, perf.left)]
    /\ UNCHANGED <<compileVars, sAgent, exec, part, sramBuf, gen, cfgRun, combiner>>

SpecCompare == InitCompare /\ [][ComparePerformance]_vars

Compared == perf.result \notin {"none", "called"}
DramBytes(stream, field) ==
    SumOver([i \in DOMAIN stream |-> stream[i].m_Input[field] + stream[i].m_Output[field]
                                         + stream[i].m_Weights[field]], DOMAIN stream)
\* The metrics in the order of the tie-break: total DRAM bytes, non-parallel DRAM bytes, passes.
Metrics(stream) ==
    <<DramBytes(stream, "m_DramParallel") + DramBytes(stream, "m_DramNonParallel"),
      DramBytes(stream, "m_DramNonParallel"), Len(stream)>>
LexLess(a, b) == \E i \in 1..3 : a[i] < b[i] /\ \A j \in 1..(i - 1) : a[j] = b[j]

\* C21: ComparePerformanceData orders two estimates lexicographically by (total DRAM bytes,
\* non-parallel DRAM bytes, number of passes), smaller being better; it returns Equal exactly
\* when the three metrics are equal, and swapping the arguments swaps LeftBetter and
\* RightBetter.
C21_LexicographicComparison ==
    Compared =>
        /\ perf.result = "LeftBetter" <=> LexLess(Metrics(perf.left), Metrics(perf.right))
        /\ perf.result = "RightBetter" <=> LexLess(Metrics(perf.right), Metrics(perf.left))
        /\ perf.result = "Equal" <=> Metrics(perf.left) = Metrics(perf.right)
        /\ perf.swapped = CASE perf.result = "LeftBetter" -> "RightBetter"
                            [] perf.result = "RightBetter" -> "LeftBetter"
                            [] OTHER -> "Equal"

\* Two estimates with the same total and the same number of passes were compared, and the one
\* with fewer non-parallel bytes won.
C21_Witness ==
    /\ Compared
    /\ Metrics(perf.left)[1] = Metrics(perf.right)[1]
    /\ Metrics(perf.left)[2] < Metrics(perf.right)[2]
    /\ Len(perf.left) = Len(perf.right)
    /\ perf.result = "LeftBetter" /\ perf.swapped = "RightBetter"

(***************************************************************************)
(* Write-after-read registrations on one producer agent.                   *)
(***************************************************************************)
\* The processed MCE ops that registered a write-after-read dependency on the agent of op src.
WriteAfterReadConsumers(src) == {i \in ProcessedMceOps : ops[i].in0 = src \/ ops[i].in1 = src}
LastOf(S) == CHOOSE i \in S : \A j \in S : j <= i

\* C22: however many write-after-read dependencies are registered on one producer agent, its
\* writeDependencies[0] is the one derived from the last registered consumer: every
\* registration replaces relativeAgentId, outerRatio, innerRatio and boundary of the one before.
C22_WriteAfterReadFromLastConsumer ==
    \A src \in OpIds(ops) :
        WriteAfterReadConsumers(src) # {} =>
            LET last     == LastOf(WriteAfterReadConsumers(src))
                producer == opToAgent[src]
                consumer == opToAgent[last]
                type     == IF ops[last].in1 = src THEN "WGT_STREAMER" ELSE "IFM_STREAMER"
            IN  AgentAt(agents, producer).info.writeDependencies[1] =
                    FillProducerAgentDependency(
                        [FreshDependency EXCEPT !.relativeAgentId = consumer - producer],
                        "MCE_SCHEDULER", AgentAt(agents, consumer), type, AgentAt(agents, producer))

\* Two MCE ops with different stripe counts have registered on the same IFM streamer.
C22_Witness ==
    \E src \in OpIds(ops) :
        \E i, j \in WriteAfterReadConsumers(src) :
            /\ i < j
            /\ AgentOfOp(src).type = "IFM_STREAMER"
            /\ AgentOfOp(i).data.numStripes # AgentOfOp(j).data.numStripes

(***************************************************************************)
(* Direction and range of the recorded dependencies.                       *)
(***************************************************************************)
\* The largest value of the 8-bit relativeAgentId field.
MaxRelativeAgentPosition == 255

AgentIds == 0 .. Len(agents) - 1
SetDependencies(deps) == {k \in DOMAIN deps : deps[k].relativeAgentId # 0}

\* C23: every dependency with a non-zero relativeAgentId refers to an agent of the list,
\* earlier than its owner for read-after-write dependencies and later than its owner for
\* write-after-read and schedule dependencies; and the dependencies an MCE op registered hold
\* relativeAgentId = consumer id - producer id, between 1 and the maximum relative position.
C23_DependenciesLinkEarlierProducerToLaterConsumer ==
    /\ \A a \in AgentIds :
          LET info == AgentAt(agents, a).info
          IN  /\ \A k \in SetDependencies(info.readDependencies) :
                    a - info.readDependencies[k].relativeAgentId \in AgentIds
              /\ \A k \in SetDependencies(info.writeDependencies) :
                    a + info.writeDependencies[k].relativeAgentId \in AgentIds
              /\ \A k \in SetDependencies(info.scheduleDependencies) :
                    a + info.scheduleDependencies[k].relativeAgentId \in AgentIds
    /\ \A i \in ProcessedMceOps :
          LET consumer == opToAgent[i]
          IN  \A src \in {ops[i].in0, ops[i].in1} :
                 LET producer == opToAgent[src]
                     slot     == IF src = ops[i].in1 THEN 2 ELSE 1
                 IN  /\ producer < consumer
                     /\ consumer - producer <= MaxRelativeAgentPosition
                     /\ AgentAt(agents, consumer).info.readDependencies[slot].relativeAgentId
                            = consumer - producer
                     /\ AgentAt(agents, producer).info.writeDependencies[1].relativeAgentId >= 1
                     /\ AgentAt(agents, producer).info.scheduleDependencies[1].relativeAgentId >= 1
                     /\ producer + AgentAt(agents, producer).info.writeDependencies[1].relativeAgentId
                            = opToAgent[LastOf(WriteAfterReadConsumers(src))]
                     /\ producer + AgentAt(agents, producer).info.scheduleDependencies[1].relativeAgentId
                            = opToAgent[FirstOf(ScheduleConsumers(src))]

\* An MCE op that loads its PLE kernel has registered all three kinds of dependency, and its
\* IFM producer is more than one agent before it.
C23_Witness ==
    \E i \in ProcessedMceOps :
        /\ ops[i].pleLoadKernel
        /\ opToAgent[i] - opToAgent[ops[i].in0] > 2
        /\ AgentAt(agents, opToAgent[i] - 1).info.scheduleDependencies[1].relativeAgentId = 1

(***************************************************************************)
(* The order in which the commands of a config file take effect.           *)
(***************************************************************************)
\* The lines read so far that stand in a section whose regex matches the part.
AppliedLines == {i \in 1..cfgRun.lineNumber : InMatchingSection(i)}
LastIn(S) == CHOOSE i \in S : \A j \in S : j <= i
SplitNames ==
    [mceAndPleOutputHeight |-> "Splits.MceAndPleOutputHeight", mceOutputHeightOnly |-> "Splits.MceOutputHeightOnly",
     widthOnly |-> "Splits.WidthOnly", widthHeight |-> "Splits.WidthHeight",
     widthHeightOutputDepth |-> "Splits.WidthHeightOutputDepth",
     widthHeightOutputDepthInputDepth |-> "Splits.WidthHeightOutputDepthInputDepth",
     outputDepthInputDepth |-> "Splits.OutputDepthInputDepth", mceOutputDepthOnly |-> "Splits.MceOutputDepthOnly",
     mceAndPleOutputDepth |-> "Splits.MceAndPleOutputDepth", inputDepthOnly |-> "Splits.InputDepthOnly",
     none |-> "Splits.None"]
\* The applied lines that set the split sp, the block config b, the minimum block width multiplier.
SplitSetters(sp) ==
    {i \in AppliedLines :
        LET l == cfgRun.file.lines[i]
        IN  \/ l.kind = "command" /\ l.text \in {"DisableAll", "DisableAllSplits"}
            \/ l.kind = "assign" /\ l.text = SplitNames[sp]}
BlockConfigSetters(b) ==
    {i \in AppliedLines :
        LET l == cfgRun.file.lines[i]
        IN  \/ l.kind = "command" /\ l.text \in {"DisableAll", "DisableAllBlockConfigs"}
            \/ l.kind = "assign" /\ l.block = b}
MinWidthSetters ==
    {i \in AppliedLines :
        cfgRun.file.lines[i].kind = "assign" /\ cfgRun.file.lines[i].text = "BlockWidthMultiplier.Min"}
\* What a setter line sets a boolean setting to.
Enables(l) == l.kind = "assign" /\ l.value = <<"T", "r", "u", "e">>
ReadWithoutError == cfgRun.env /\ cfgRun.file.good /\ cfgRun.outcome \in {"reading", "returned"}

\* C24: while and after a config file is read without error, every split, every block config
\* and the minimum block width multiplier have the value given by the last line read so far
\* that sets them and stands in a section matching the part, and the value derived from the
\* compilation options when there is no such line: lines before the first section and in
\* sections that do not match change nothing.
C24_LastApplicableCommandWins ==
    ReadWithoutError =>
        LET defaults == ApplyCompilationOptions(cfgRun.options)
            lines    == cfgRun.file.lines
        IN  /\ \A sp \in DOMAIN cfgRun.config.splits :
                  cfgRun.config.splits[sp] =
                      IF SplitSetters(sp) = {} THEN defaults.splits[sp]
                      ELSE Enables(lines[LastIn(SplitSetters(sp))])
            /\ \A b \in SixBlockConfigs :
                  b \in BlockConfigsOf(cfgRun.config) <=>
                      IF BlockConfigSetters(b) = {} THEN b \in BlockConfigsOf(defaults)
                      ELSE Enables(lines[LastIn(BlockConfigSetters(b))])
            /\ cfgRun.config.blockWidthMultiplier.min =
                  IF MinWidthSetters = {} THEN defaults.blockWidthMultiplier.min
                  ELSE ValueUInt(lines[LastIn(MinWidthSetters)].value).value
            /\ AppliedLines = {} => cfgRun.config = defaults

\* The example of the source: in a section for the part, DisableAll, Splits.WidthHeight=True
\* and BlockConfig(8,8)=True were read, and exactly that split and that block config are on.
C24_Witness ==
    /\ ReadWithoutError /\ cfgRun.outcome = "returned"
    /\ Len(cfgRun.file.lines) = 4
    /\ cfgRun.file.lines[1].text = cfgRun.identifier
    /\ cfgRun.file.lines[2].text = "DisableAll"
    /\ cfgRun.file.lines[3].text = "Splits.WidthHeight" /\ Enables(cfgRun.file.lines[3])
    /\ cfgRun.file.lines[4].block = <<8, 8>> /\ Enables(cfgRun.file.lines[4])
    /\ {sp \in DOMAIN cfgRun.config.splits : cfgRun.config.splits[sp]} = {"widthHeight"}
    /\ cfgRun.config.blockConfigs = << <<8, 8>> >>

(***************************************************************************)
(* The stripe count recorded for an MceScheduler agent.                    *)
(***************************************************************************)
\* C25: the numStripesTotal of every MceScheduler agent is the number of stripes the agent
\* processes, the product of its numStripes over ofmHeight, ofmWidth, ofmChannels and
\* ifmChannels, also when the input depth is split into several stripes.
C25_MceNumStripesTotalIsProduct ==
    \A a \in 1..Len(agents) :
        agents[a].type = "MCE_SCHEDULER" =>
            agents[a].info.numStripesTotal =
                agents[a].data.numStripes.ofmHeight * agents[a].data.numStripes.ofmWidth
                    * agents[a].data.numStripes.ofmChannels * agents[a].data.numStripes.ifmChannels

(***************************************************************************)
(* Agent ids and the op-to-agent map during Compile.                       *)
(***************************************************************************)
\* The agent type AddXToCommandStream gives the agent of an op.
AgentTypeOfOp(op) ==
    CASE IsIfmDma(op) -> "IFM_STREAMER"
      [] IsWgtDma(op) -> "WGT_STREAMER"
      [] IsOfmDma(op) -> "OFM_STREAMER"
      [] op.kind = "Mce" -> "MCE_SCHEDULER"
      [] op.kind = "Ple" -> "PLE_SCHEDULER"
      [] OTHER -> "none"

\* C26: at every point of Compile the op-to-agent map holds exactly the DMA, MCE and PLE ops
\* met so far; each is sent to an index of the agent list, where an agent of the type of the
\* op stands; ids grow with the order of the ops, so distinct ops have distinct ids; and the
\* agents no op is sent to are PLE loaders.
C26_AgentIdsAreListIndices ==
    /\ DOMAIN opToAgent = OpsOfKind({"Dma", "Mce", "Ple"})
    /\ \A i \in DOMAIN opToAgent :
          /\ opToAgent[i] \in 0..(Len(agents) - 1)
          /\ AgentOfOp(i).type = AgentTypeOfOp(ops[i])
    /\ \A i, j \in DOMAIN opToAgent : i < j => opToAgent[i] < opToAgent[j]
    /\ \A a \in 0..(Len(agents) - 1) :
          a \notin AgentIdsOfOps(OpIds(ops)) => AgentAt(agents, a).type = "PLE_LOADER"
    /\ \A k \in DOMAIN pleKernelToLoader :
          /\ pleKernelToLoader[k] \in 0..(Len(agents) - 1)
          /\ AgentAt(agents, pleKernelToLoader[k]).type = "PLE_LOADER"

\* Compile has met ops of every kind that has an agent, a PLE loader stands between two op
\* agents, and a Concat op has been passed over.
C26_Witness ==
    /\ \E i \in DOMAIN opToAgent : IsOfmDma(ops[i])
    /\ \E i \in DOMAIN opToAgent : ops[i].kind = "Ple"
    /\ \E a \in 1..(Len(agents) - 1) : AgentAt(agents, a).type = "PLE_LOADER"
    /\ OpsOfKind({"Concat"}) # {}

(***************************************************************************)
(* The lookups of the lifetime computation.                                *)
(***************************************************************************)
\* C27: when Compile of an op graph of supported ops has reached the lifetime computation,
\* the op-to-agent map holds an agent id for the producer and for every consumer of each
\* Intermediate DRAM buffer, Concat ops included, so that no lookup fails, and the producer's
\* agent id is below the agent id of every consumer.
C27_LifetimeLookupsFindAgents ==
    LifetimeStepRan =>
        \A b \in IntermediateBufs(dramBufs) :
            /\ dramBufs[b].producer \in DOMAIN opToAgent
            /\ \A c \in dramBufs[b].consumers :
                  /\ c \in DOMAIN opToAgent
                  /\ dramBufs[b].producer \in DOMAIN opToAgent => opToAgent[dramBufs[b].producer] < opToAgent[c]

\* The same without the Concat ops: the lookups of the other producers and consumers succeed.
LifetimeLookupsOfAgentOpsSucceed ==
    LifetimeStepRan =>
        \A b \in IntermediateBufs(dramBufs) :
            LET users == {dramBufs[b].producer} \cup dramBufs[b].consumers
            IN  \A u \in users : ops[u].kind # "Concat" => u \in DOMAIN opToAgent

(***************************************************************************)
(* The multiplier loops of StripeGenerator::GenerateStripes for a Lonely   *)
(* cascade (StripeHelper.cpp:762-806), one step per evaluation of a loop   *)
(* condition:                                                              *)
(*   for h from minBlockHeightMultiplier while h <= max, h *= 2            *)
(*     for w from minBlockWidthMultiplier while w <= max, w *= 2           *)
(*       if splits.widthHeight then AddStripeInfos                         *)
(* The StripeConfig is the default one with the two minima as the config   *)
(* file lines BlockWidthMultiplier.Min and BlockHeightMultiplier.Min set   *)
(* them.  The multipliers stay far below 2^32, so the doubling never       *)
(* wraps.                                                                  *)
(***************************************************************************)
\* Largest minimum a config file sets in the model.
MaxMultiplierMin == 2

InitLoops ==
    /\ CompileInit
    /\ sAgent = [kind |-> "none"]
    /\ exec = ExecIdle
    /\ part = NoPart
    /\ sramBuf = NoBuffer
    /\ cfgRun = NoConfigRun
    /\ combiner = NoCombiner
    /\ perf = NoComparison
    /\ \E b \in 1..Len(DefaultStripeConfig.blockConfigs), hw \in {<<8, 8>>, <<16, 32>>, <<64, 64>>},
          ple \in {<<1, 1>>, <<1, 2>>}, minWidth \in 0..MaxMultiplierMin, minHeight \in 0..MaxMultiplierMin :
          gen = [cascadeType |-> "Lonely", pc |-> "called",
                 blockConfig |-> DefaultStripeConfig.blockConfigs[b],
                 m_MceInputTensorShape |-> <<1, hw[1], hw[2], 16>>,
                 m_PleShapeMultiplier |-> [m_H |-> ple, m_W |-> ple, m_C |-> <<1, 1>>],
                 m_StripeConfig |-> [DefaultStripeConfig EXCEPT !.blockWidthMultiplier.min = minWidth,
                                                               !.blockHeightMultiplier.min = minHeight],
                 minBlockWidthMultiplier |-> 0, maxBlockWidthMultiplier |-> 0,
                 minBlockHeightMultiplier |-> 0, maxBlockHeightMultiplier |-> 0,
                 heightMultiplier |-> 0, widthMultiplier |-> 0, encodings |-> {}]

\* GenerateStripes from the multiplier bounds to the initialisation of the outer loop.
GenerateStripesEnterLoops ==
    /\ gen.cascadeType = "Lonely" /\ gen.pc = "called"
    /\ LET blockWidth  == gen.blockConfig[1]
           blockHeight == gen.blockConfig[2]
           minBlockHeightMultiplier ==
               Max(g_BrickGroupShape[2] \div MulFraction(blockHeight, gen.m_PleShapeMultiplier.m_H),
                   gen.m_StripeConfig.blockHeightMultiplier.min)
       IN  gen' = [gen EXCEPT
                       !.minBlockWidthMultiplier =
                           Max(g_BrickGroupShape[3] \div MulFraction(blockWidth, gen.m_PleShapeMultiplier.m_W),
                               gen.m_StripeConfig.blockWidthMultiplier.min),
                       !.maxBlockWidthMultiplier =
                           Max(1, Min(GetWidth(gen.m_MceInputTensorShape) \div blockWidth,
                                      gen.m_StripeConfig.blockWidthMultiplier.max)),
                       !.minBlockHeightMultiplier = minBlockHeightMultiplier,
                       !.maxBlockHeightMultiplier =
                           Max(1, Min(GetHeight(gen.m_MceInputTensorShape) \div blockHeight,
                                      gen.m_StripeConfig.blockHeightMultiplier.max)),
                       !.heightMultiplier = minBlockHeightMultiplier,
                       !.pc = "height loop"]
    /\ UNCHANGED <<compileVars, sAgent, exec, part, sramBuf, cfgRun, combiner, perf>>

\* The condition of the outer loop: enter the inner loop or leave.
HeightMultiplierLoop ==
    /\ gen.cascadeType = "Lonely" /\ gen.pc = "height loop"
    /\ gen' = IF gen.heightMultiplier <= gen.maxBlockHeightMultiplier
              THEN [gen EXCEPT !.widthMultiplier = gen.minBlockWidthMultiplier, !.pc = "width loop"]
              ELSE [gen EXCEPT !.pc = "loops left"]
    /\ UNCHANGED <<compileVars, sAgent, exec, part, sramBuf, cfgRun, combiner, perf>>

\* The condition of the inner loop: its body and widthMultiplier *= 2, or else
\* heightMultiplier *= 2 and back to the outer loop.
WidthMultiplierLoop ==
    /\ gen.cascadeType = "Lonely" /\ gen.pc = "width loop"
    /\ gen' = IF gen.widthMultiplier <= gen.maxBlockWidthMultiplier
              THEN [gen EXCEPT
                        !.encodings = IF gen.m_StripeConfig.splits.widthHeight
                                      THEN @ \cup {<<0, gen.heightMultiplier * gen.blockConfig[2],
                                                     gen.widthMultiplier * gen.blockConfig[1], 0>>}
                                      ELSE @,
                        !.widthMultiplier = 2 * @]
              ELSE [gen EXCEPT !.heightMultiplier = 2 * @, !.pc = "height loop"]
    /\ UNCHANGED <<compileVars, sAgent, exec, part, sramBuf, cfgRun, combiner, perf>>

NextLoops == GenerateStripesEnterLoops \/ HeightMultiplierLoop \/ WidthMultiplierLoop

\* The function runs on: a step is taken whenever one can change the state.
SpecLoops == InitLoops /\ [][NextLoops]_vars /\ WF_vars(NextLoops)

\* C28: stripe generation terminates for every block config and every StripeConfig, also
\* when the config file set the minimum block width or height multiplier to 0: whenever a
\* loop condition holds, doubling the loop's multiplier strictly increases it, so that the
\* upper bound is passed after finitely many iterations.
C28_EachDoublingIncreasesMultiplier ==
    /\ (gen.cascadeType = "Lonely" /\ gen.pc = "width loop"
            /\ gen.widthMultiplier <= gen.maxBlockWidthMultiplier)
           => 2 * gen.widthMultiplier > gen.widthMultiplier
    /\ (gen.cascadeType = "Lonely" /\ gen.pc = "width loop"
            /\ gen.heightMultiplier <= gen.maxBlockHeightMultiplier)
           => 2 * gen.heightMultiplier > gen.heightMultiplier

\* Termination itself: the multiplier loops are left after finitely many steps.  It fails
\* on the same inputs, where the loop variable stays 0 for ever.
MultiplierLoopsTerminate == <>(gen.pc = "loops left")

\* With both minima at least 1 after the bounds are computed, the loops are left.
LoopsWithPositiveMinimaTerminate ==
    (gen.pc = "height loop" /\ gen.minBlockHeightMultiplier >= 1 /\ gen.minBlockWidthMultiplier >= 1)
        ~> (gen.pc = "loops left")

(***************************************************************************)
(* The width of the ratio fields.                                          *)
(***************************************************************************)
\* C29: the ratios stored in a dependency are the exact values they are derived from, never
\* truncated to the 8 bits of the field: for an MCE op fed by an IFM streamer both outer
\* ratios of its read dependency are the full products of stripe counts, and the schedule
\* dependency of the PLE loader added for an MCE op holds ofmHeight * ofmWidth stripes of the
\* MCE scheduler in its outer and inner ratio.
C29_RatiosNeverTruncated ==
    \A i \in ProcessedMceOps :
        LET mce == AgentOfOp(i).data.numStripes
            rd  == AgentOfOp(i).info.readDependencies[1]
            ifm == AgentOfOp(ops[i].in0).data.fmData.numStripes
            sd  == AgentAt(agents, opToAgent[i] - 1).info.scheduleDependencies[1]
        IN  /\ i \in IfmFedMceOps =>
                  /\ rd.outerRatio.self = mce.ofmHeight * mce.ofmWidth * mce.ifmChannels
                  /\ rd.outerRatio.other = ifm.height * ifm.width * ifm.channels
            /\ ops[i].pleLoadKernel =>
                  /\ sd.outerRatio.other = mce.ofmHeight * mce.ofmWidth
                  /\ sd.innerRatio.other = mce.ofmHeight * mce.ofmWidth
                  /\ sd.outerRatio.self = 1 /\ sd.innerRatio.self = 1

\* The same for the stripe counts whose products stay below 256: there the stored ratios are exact.
RatiosExactBelowFieldWidth ==
    \A i \in ProcessedMceOps :
        LET mce == AgentOfOp(i).data.numStripes
            sd  == AgentAt(agents, opToAgent[i] - 1).info.scheduleDependencies[1]
        IN  (ops[i].pleLoadKernel /\ mce.ofmHeight * mce.ofmWidth < 256) =>
                /\ sd.outerRatio.other = mce.ofmHeight * mce.ofmWidth
                /\ sd.innerRatio.other = mce.ofmHeight * mce.ofmWidth

(***************************************************************************)
(* StandalonePlePart::GetPlans (StandalonePlePart.cpp).  A plan is         *)
(* represented by the output stripe shape addPlan is called with; the      *)
(* stripe sizes that StripeShapeLoop::Inclusive yields in the Lonely loop  *)
(* over height, width and depth are an input (loopStripes), as that class  *)
(* is declared outside the sources at hand.  For Middle and End the        *)
(* combiner hands in the previous buffer; for Beginning and Lonely there   *)
(* is none.                                                                *)
(***************************************************************************)
\* GetPlans handing back the unsplit plan whatever the kernel, cascade type and previous buffer.
GetPlansAlwaysUnsplit(p, cascadeType, prevBuffer, loopStripes) ==
    <<CreateStripe(p.m_OutputTensorShape, <<0, 0, 0, 0>>, g_BrickGroupShape[4])>>

\* StandalonePlePart::GetPlans
StandalonePleGetPlans(p, cascadeType, prevBuffer, loopStripes) ==
    LET brickGroupHeight == g_BrickGroupShape[2]
        brickGroupWidth  == g_BrickGroupShape[3]
        brickGroupDepth  == g_BrickGroupShape[4]
        avgPoolConfig ==
            DisableSplits(p.m_StripeConfig,
                          IF cascadeType # "Lonely" THEN {"Width", "Height", "InputDepth", "OutputDepth"}
                          ELSE {"Width", "Height"})
        stripeConfig ==
            IF p.m_KernelOperation = "AVGPOOL_3X3_1_1_UDMA" THEN avgPoolConfig ELSE p.m_StripeConfig
        when(enabled, encodings) ==
            IF enabled THEN [i \in DOMAIN encodings |-> CreateStripe(p.m_OutputTensorShape, encodings[i], brickGroupDepth)]
            ELSE <<>>
        plans ==
            when(stripeConfig.splits.none, << <<0, 0, 0, 0>> >>)
            \o when(stripeConfig.splits.widthOnly, << <<0, 0, brickGroupWidth, 0>> >>)
            \o when(stripeConfig.splits.mceAndPleOutputHeight, << <<0, brickGroupHeight, 0, 0>> >>)
            \o when(cascadeType = "Lonely" /\ stripeConfig.splits.outputDepthInputDepth,
                    << <<0, 0, 0, brickGroupDepth>> >>)
            \o when(cascadeType = "Lonely" /\ stripeConfig.splits.widthHeightOutputDepthInputDepth,
                    [i \in DOMAIN loopStripes |-> <<0, loopStripes[i][1], loopStripes[i][2], loopStripes[i][3]>>])
    IN  IF cascadeType \in {"Middle", "End"} /\ prevBuffer.m_Location # "Sram"
        THEN <<>>
        ELSE IF p.m_KernelOperation \in {"ADDITION", "ADDITION_RESCALE"}
        THEN IF cascadeType = "Lonely" THEN plans ELSE <<>>
        ELSE IF /\ cascadeType \in {"Middle", "End"}
                /\ \E d \in 2..4 : prevBuffer.m_StripeShape[d] < p.m_InputTensorShape[d]
        THEN <<>>
        ELSE plans

InitStandalonePle ==
    /\ CompileInit
    /\ sAgent = [kind |-> "none"]
    /\ exec = ExecIdle
    /\ sramBuf = NoBuffer
    /\ gen = NoGenerator
    /\ cfgRun = NoConfigRun
    /\ combiner = NoCombiner
    /\ perf = NoComparison
    /\ \E kernel \in {"ADDITION", "ADDITION_RESCALE", "AVGPOOL_3X3_1_1_UDMA"},
          shape \in {<<1, 8, 8, 16>>, <<1, 16, 32, 32>>},
          config \in {DefaultStripeConfig, DisableSplits(DefaultStripeConfig, {"Width", "Height"}),
                      DisableSplits(DefaultStripeConfig, {"InputDepth", "OutputDepth"})},
          cascadeType \in {"Beginning", "Middle", "End", "Lonely"},
          location \in {"none", "Sram", "Dram", "PleInputSram"},
          stripe \in {<<1, 8, 8, 16>>, <<1, 16, 32, 32>>},
          loopStripes \in {<<>>, << <<8, 8, 16>> >>, << <<8, 8, 16>>, <<16, 8, 16>>, <<16, 16, 32>> >>} :
          /\ (location = "none") <=> (cascadeType \in {"Beginning", "Lonely"})
          /\ location # "Sram" => stripe = <<1, 8, 8, 16>>
          /\ part = [kind |-> "StandalonePlePart",
                     m_KernelOperation |-> kernel, m_InputTensorShape |-> shape, m_OutputTensorShape |-> shape,
                     m_StripeConfig |-> config, cascadeType |-> cascadeType,
                     prevBuffer |-> [m_Location |-> location, m_StripeShape |-> stripe],
                     loopStripes |-> loopStripes, plans |-> <<>>, outcome |-> "called"]

\* The combiner asks the part for its plans.
StandalonePleGetPlansCall ==
    /\ part.kind = "StandalonePlePart"
    /\ part.outcome = "called"
    /\ part' = [part EXCEPT !.plans = StandalonePleGetPlans(part, part.cascadeType, part.prevBuffer,
                                                            part.loopStripes),
                            !.outcome = "returned"]
    /\ UNCHANGED <<compileVars, sAgent, exec, sramBuf, gen, cfgRun, combiner, perf>>

SpecStandalonePle == InitStandalonePle /\ [][StandalonePleGetPlansCall]_vars

\* C30: a standalone PLE part with the kernel ADDITION or ADDITION_RESCALE returns no plan
\* for the cascade types Beginning, Middle and End, and a part with any kernel returns no
\* plan for Middle or End when the previous buffer is not in Sram.
C30_StandalonePleJoinsSectionsOnlyWhenAllowed ==
    (part.kind = "StandalonePlePart" /\ part.outcome = "returned") =>
        /\ (part.m_KernelOperation \in {"ADDITION", "ADDITION_RESCALE"} /\ part.cascadeType # "Lonely")
               => part.plans = <<>>
        /\ (part.cascadeType \in {"Middle", "End"} /\ part.prevBuffer.m_Location # "Sram")
               => part.plans = <<>>
        /\ (part.plans # <<>> /\ part.cascadeType # "Lonely")
               => part.m_KernelOperation = "AVGPOOL_3X3_1_1_UDMA"

\* An ADDITION part asked to continue a section from a buffer in Sram has returned no plan.
C30_Witness ==
    /\ part.kind = "StandalonePlePart" /\ part.outcome = "returned"
    /\ part.m_KernelOperation = "ADDITION"
    /\ part.cascadeType = "Middle"
    /\ part.prevBuffer.m_Location = "Sram"
    /\ part.m_StripeConfig.splits.none
    /\ part.plans = <<>>

\* The other side: a Lonely ADDITION part and an AVGPOOL part continuing a section from a
\* whole-tensor buffer in Sram do return plans.
StandalonePlePlansExist ==
    (part.kind = "StandalonePlePart" /\ part.outcome = "returned" /\ part.m_StripeConfig.splits.none) =>
        /\ part.cascadeType = "Lonely" => part.plans # <<>>
        /\ (/\ part.m_KernelOperation = "AVGPOOL_3X3_1_1_UDMA" /\ part.cascadeType = "End"
            /\ part.prevBuffer.m_Location = "Sram"
            /\ part.prevBuffer.m_StripeShape = part.m_InputTensorShape) => part.plans # <<>>

====
